---- MODULE Spec2Model ----
(***************************************************************************)
(* A model of pushpluck: the Push pad grid played as a fretted instrument. *)
(* The fretboard engine (tuner, channel mapper, note handlers, tracker),   *)
(* the pads component, the menu and the orchestrator are translated from   *)
(* src/pushpluck; the processed port and the controller port are observed  *)
(* through the messages each handled event emits.                          *)
(***************************************************************************)
EXTENDS Integers, Sequences, FiniteSets, TLC

(***************************************************************************)
(* Bounds of the model.                                                    *)
(***************************************************************************)
\* The player touches the pads whose index (row * 8 + col) lies in
\* FirstPad .. FirstPad + NumPlayPads - 1 ...
FirstPad == 13
NumPlayPads == 4
\* ... and presses with a velocity in 1 .. MaxVel.
MaxVel == 2
\* In the orchestrator's specification at most MaxHeld pads are down at once,
MaxHeld == 2
\* the velocity floor stays within 0 .. MaxMinVel,
MaxMinVel == 1
\* and the fret offset within 0 .. MaxShift.
MaxShift == 1
\* Undo presses in a row are counted up to MaxUndos.
MaxUndos == 2
\* Where the velocity floor is what is looked at, the program starts with a
\* floor in 0 .. MaxFloor.
MaxFloor == 3
\* Pads down at once on the whole grid.
MaxGridHeld == 2
\* The shadow is looked at on the first NumShadowPads pads of the grid, the
\* first NumLcdRows rows of the display, each LineLen characters long, and
\* with at most MaxScopeCells cells written in one scope.
NumShadowPads == 2
NumLcdRows == 1
LineLen == 2
MaxScopeCells == 2
\* A MIDI message carries data bytes in 0 .. MaxData; of the second byte (a
\* velocity, a controller value) the decoder is given those of DataValues.
MaxData == 127
\* The most messages the controller sends before the program ends.
MaxMsgs == 3
\* The strings and the frets of each the choke groups are triggered with.
NumChokeStrings == 2
NumChokeFrets == 3
\* The delay of the rate-limited port, the latest time of the clock and the
\* longest a sleep lasts beyond what was asked, in ticks of the clock.
Delay == 2
MaxClock == 10
MaxOversleep == 1
\* The viewport is asked about columns, frets and strings up to ViewMargin
\* beyond the grid and the tuning.
ViewMargin == 1
\* A viewport is shifted by up to ViewShift strings and frets either way.
ViewShift == 1

(***************************************************************************)
(* Program constants.                                                      *)
(***************************************************************************)
LOW_NOTE == 36
NUM_PAD_ROWS == 8
NUM_PAD_COLS == 8
LOW_CHAN_CONTROL == 20
LOW_GRID_CONTROL == 102
STANDARD_TUNING == <<40, 45, 50, 55, 59, 64>>
MIDI_BASE_CHANNEL == 0
MIDI_MIN_CHANNEL == 0
MIDI_MAX_CHANNEL == 5

None == [none |-> TRUE]

\* The element of a one-element set.  Only({e(x) : x \in {v}}) is e(v), with v
\* computed once.
Only(S) == CHOOSE x \in S : TRUE

Max(a, b) == IF a >= b THEN a ELSE b

(***************************************************************************)
(* Pos (pos.py)                                                            *)
(***************************************************************************)
Pos(r, c) == [row |-> r, col |-> c]

AllPos == {Pos(r, c) : r \in 0 .. NUM_PAD_ROWS - 1, c \in 0 .. NUM_PAD_COLS - 1}

to_index(pos) == NUM_PAD_COLS * pos.row + pos.col

to_note(pos) == LOW_NOTE + to_index(pos)

\* Pos.iter_all as a sequence: from the lowest to the highest pos.
PosSeq == [i \in 1 .. NUM_PAD_ROWS * NUM_PAD_COLS |->
             Pos((i - 1) \div NUM_PAD_COLS, (i - 1) % NUM_PAD_COLS)]

(***************************************************************************)
(* Config (config.py).  The instrument, the tuning, the scale and the root *)
(* are never changed by the menu and are left out of the record.           *)
(***************************************************************************)
Layouts == {"Horiz", "Vert"}
PlayModes == {"Tap", "Poly", "Mono"}
ChannelModes == {"Single", "Multi"}

init_config(mv) ==
  [layout |-> "Horiz", play_mode |-> "Tap", chan_mode |-> "Single",
   min_velocity |-> mv, str_offset |-> 0, fret_offset |-> 0]

\* VisState.primary / enabled
IsPrimary(vs) == vs = "OnPrimary"
IsEnabled(vs) == vs # "OnDisabled"

(***************************************************************************)
(* Viewport: pad position <-> string position under layout and offsets.    *)
(***************************************************************************)
StringPos(s, f) == [str_index |-> s, fret |-> f]

NumStrings == Len(STANDARD_TUNING)

ViewportConfig(cfg) ==
  [num_strings |-> NumStrings, layout |-> cfg.layout,
   str_offset |-> cfg.str_offset, fret_offset |-> cfg.fret_offset]

total_str_offset(vc) ==
  vc.str_offset - Max(0, (NUM_PAD_ROWS - vc.num_strings) \div 2)

str_pos_from_pad_pos(vc, pos) ==
  LET si == IF vc.layout = "Horiz" THEN pos.row + total_str_offset(vc)
                                   ELSE pos.col + total_str_offset(vc)
      fr == IF vc.layout = "Horiz" THEN pos.col + vc.fret_offset
                                   ELSE (NUM_PAD_ROWS - 1 - pos.row) + vc.fret_offset
  IN IF si < 0 \/ si >= vc.num_strings THEN None ELSE StringPos(si, fr)

pad_pos_from_str_pos(vc, sp) ==
  LET line == sp.str_index - total_str_offset(vc)
      along == sp.fret - vc.fret_offset
      pos == IF vc.layout = "Horiz" THEN Pos(line, along)
                                    ELSE Pos(NUM_PAD_ROWS - 1 - along, line)
  IN IF sp.str_index < 0 \/ sp.str_index >= vc.num_strings THEN None
     ELSE IF pos \in AllPos THEN pos ELSE None

\* Viewport.str_pos_from_pad_pos as viewport.py has it, for the configuration
\* its assertions admit: six strings, no offsets.
viewport_str_pos_from_pad_pos(pos) ==
  IF pos.row = 0 \/ pos.row = 7 THEN None
  ELSE StringPos(pos.row - 1, pos.col)

\* Viewport.pad_pos_from_str_pos as viewport.py has it, likewise.
viewport_pad_pos_from_str_pos(str_pos) == Pos(str_pos.str_index + 1, str_pos.fret)

\* The StringBounds the viewport exposes: low and high corner.
ViewBounds(vc) ==
  [low |-> StringPos(total_str_offset(vc), vc.fret_offset),
   high |-> StringPos(total_str_offset(vc) + NUM_PAD_ROWS - 1,
                      vc.fret_offset + NUM_PAD_COLS - 1)]

(***************************************************************************)
(* Fretboard configuration, tuner and channel mapper (fretboard.py)        *)
(***************************************************************************)
InBounds(b, sp) ==
  /\ sp.str_index >= b.low.str_index
  /\ sp.str_index <= b.high.str_index
  /\ sp.fret >= b.low.fret
  /\ sp.fret <= b.high.fret

BoundsPositions(b) ==
  {StringPos(s, f) : s \in b.low.str_index .. b.high.str_index,
                     f \in b.low.fret .. b.high.fret}

FretboardConfig(cfg) ==
  [chan_mode |-> cfg.chan_mode, play_mode |-> cfg.play_mode,
   min_velocity |-> cfg.min_velocity, bounds |-> ViewBounds(ViewportConfig(cfg))]

\* (a tuner that forgets the fret)
get_open_note(fc, sp) ==
  IF InBounds(fc.bounds, sp) /\ sp.str_index >= 0 /\ sp.str_index < NumStrings
  THEN STANDARD_TUNING[sp.str_index + 1]
  ELSE -1

\* FixedTuner._make_note_lookup / get_note; -1 stands for None.
get_note(fc, sp) ==
  IF InBounds(fc.bounds, sp) /\ sp.str_index >= 0 /\ sp.str_index < NumStrings
  THEN STANDARD_TUNING[sp.str_index + 1] + sp.fret
  ELSE -1

\* FixedTuner._make_equivs_lookup: the positions of the bounds giving a note.
Equivs(fc, note) ==
  {sp \in BoundsPositions(fc.bounds) : get_note(fc, sp) = note}

\* SingleChannelMapper / MultiChannelMapper .map_channel; -1 stands for None.
map_channel(fc, sp) ==
  IF fc.chan_mode = "Single" THEN MIDI_BASE_CHANNEL
  ELSE LET channel == sp.str_index + MIDI_BASE_CHANNEL
       IN IF channel < MIDI_MIN_CHANNEL \/ channel > MIDI_MAX_CHANNEL
          THEN -1 ELSE channel

(***************************************************************************)
(* FretboardMessage: a note message with the string position it is for.    *)
(* The equivalents of a message are those of its note under the tuner.     *)
(***************************************************************************)
FretMsg(sp, ch, n, v) == [str_pos |-> sp, channel |-> ch, note |-> n, velocity |-> v]

is_note_on(m) == m.velocity > 0

make_note_off_msg(m) == [m EXCEPT !.velocity = 0]

(***************************************************************************)
(* ChokeGroup                                                              *)
(***************************************************************************)
EmptyGroup == [note_order |-> <<>>, note_info |-> <<>>]

RECURSIVE bisect(_, _, _, _)
bisect(a, x, lo, hi) ==
  IF lo < hi
  THEN LET mid == (lo + hi) \div 2
       IN IF a[mid + 1] < x THEN bisect(a, x, mid + 1, hi) ELSE bisect(a, x, lo, mid)
  ELSE lo

bisect_left(a, x) == bisect(a, x, 0, Len(a))

InsertAt(a, i, x) == SubSeq(a, 1, i) \o <<x>> \o SubSeq(a, i + 1, Len(a))

DeleteAt(a, i) == SubSeq(a, 1, i) \o SubSeq(a, i + 2, Len(a))

DictSet(d, k, v) == [x \in DOMAIN d \cup {k} |-> IF x = k THEN v ELSE d[x]]

DictDel(d, k) == [x \in DOMAIN d \ {k} |-> d[x]]

max_msg(group) ==
  IF Len(group.note_order) > 0
  THEN group.note_info[group.note_order[Len(group.note_order)]]
  ELSE None

\* A variant of ChokeGroup.trigger that never forgets a released note.
ChokeGroupTriggerKeep(group, fret_msg) ==
  IF is_note_on(fret_msg)
  THEN [note_order |-> IF fret_msg.note \in DOMAIN group.note_info THEN group.note_order
                       ELSE InsertAt(group.note_order,
                                     bisect_left(group.note_order, fret_msg.note),
                                     fret_msg.note),
        note_info |-> DictSet(group.note_info, fret_msg.note, fret_msg)]
  ELSE group

\* (a choke group that inserts every note-on, held already or not)
ChokeGroupTriggerInsert(group, fret_msg) ==
  IF is_note_on(fret_msg)
  THEN [note_order |-> InsertAt(group.note_order,
                                bisect_left(group.note_order, fret_msg.note), fret_msg.note),
        note_info |-> DictSet(group.note_info, fret_msg.note, fret_msg)]
  ELSE [note_order |-> SelectSeq(group.note_order, LAMBDA n : n # fret_msg.note),
        note_info |-> IF fret_msg.note \in DOMAIN group.note_info
                      THEN DictDel(group.note_info, fret_msg.note)
                      ELSE group.note_info]

ChokeGroupTrigger(group, fret_msg) ==
  LET note_index == bisect_left(group.note_order, fret_msg.note)
      note_exists == /\ Len(group.note_order) > note_index
                     /\ note_index >= 0
                     /\ group.note_order[note_index + 1] = fret_msg.note
  IN IF is_note_on(fret_msg)
     THEN [note_order |-> IF ~note_exists
                          THEN InsertAt(group.note_order, note_index, fret_msg.note)
                          ELSE group.note_order,
           note_info |-> DictSet(group.note_info, fret_msg.note, fret_msg)]
     ELSE [note_order |-> IF note_exists
                          THEN DeleteAt(group.note_order, note_index)
                          ELSE group.note_order,
           note_info |-> IF fret_msg.note \in DOMAIN group.note_info
                         THEN DictDel(group.note_info, fret_msg.note)
                         ELSE group.note_info]

(***************************************************************************)
(* Note handlers: each returns its new state and the messages to emit.     *)
(***************************************************************************)
\* Variants of the handler's output rule, for comparison with it.
ChokeOutNoOff(prev_msg, cur_msg) ==
  IF cur_msg = None
  THEN IF prev_msg = None THEN <<>> ELSE <<make_note_off_msg(prev_msg)>>
  ELSE IF prev_msg = None \/ prev_msg # cur_msg THEN <<cur_msg>> ELSE <<>>

ChokeOutOffFirst(prev_msg, cur_msg) ==
  IF cur_msg = None
  THEN IF prev_msg = None THEN <<>> ELSE <<make_note_off_msg(prev_msg)>>
  ELSE IF prev_msg = None THEN <<cur_msg>>
       ELSE IF prev_msg = cur_msg THEN <<>>
            ELSE <<make_note_off_msg(prev_msg), cur_msg>>

ChokeOutRetrigger(prev_msg, cur_msg) ==
  IF cur_msg = None
  THEN IF prev_msg = None THEN <<>> ELSE <<make_note_off_msg(prev_msg)>>
  ELSE IF prev_msg = None \/ prev_msg = cur_msg THEN <<cur_msg>>
       ELSE <<cur_msg, make_note_off_msg(prev_msg)>>

ChokeOut(prev_msg, cur_msg) ==
  IF cur_msg = None
  THEN IF prev_msg = None THEN <<>> ELSE <<make_note_off_msg(prev_msg)>>
  ELSE IF prev_msg = None THEN <<cur_msg>>
       ELSE IF prev_msg = cur_msg THEN <<>>
            ELSE <<cur_msg, make_note_off_msg(prev_msg)>>

ChokeNoteHandlerTrigger(fing, fret_msg) ==
  LET s == fret_msg.str_pos.str_index
      group == fing[s]
      prev_msg == max_msg(group)
      new_group == ChokeGroupTrigger(group, fret_msg)
      cur_msg == max_msg(new_group)
  IN [fingered |-> [fing EXCEPT ![s] = new_group],
      msgs |-> ChokeOut(prev_msg, cur_msg)]

PolyNoteHandlerTrigger(fret_msg) == <<fret_msg>>

\* (a mono handler that leaves the previous note sounding)
MonoNoteHandlerTriggerKeep(last, fret_msg) ==
  IF ~is_note_on(fret_msg)
  THEN IF last # None /\ last = fret_msg
       THEN [last_off |-> None, msgs |-> <<last>>]
       ELSE [last_off |-> last, msgs |-> <<>>]
  ELSE [last_off |-> make_note_off_msg(fret_msg), msgs |-> <<fret_msg>>]

MonoNoteHandlerTrigger(last, fret_msg) ==
  IF ~is_note_on(fret_msg)
  THEN IF last # None /\ last = fret_msg
       THEN [last_off |-> None, msgs |-> <<last>>]
       ELSE [last_off |-> last, msgs |-> <<>>]
  ELSE [last_off |-> make_note_off_msg(fret_msg),
        msgs |-> (IF last # None THEN <<last>> ELSE <<>>) \o <<fret_msg>>]

EmptyFingered == [s \in 0 .. NumStrings - 1 |-> EmptyGroup]

(***************************************************************************)
(* NoteTracker.  vis holds the positions whose VisState is not Off; the    *)
(* note map holds a set of notes for every channel that ever had a note    *)
(* on.                                                                     *)
(***************************************************************************)
get_vis(v, sp) == IF sp \in DOMAIN v THEN v[sp] ELSE "Off"

SetVis(v, sp, vs) == IF vs = "Off" THEN DictDel(v, sp) ELSE DictSet(v, sp, vs)

\* (a tracker that never forgets a note)
RecordNoteKeep(nm, m) ==
  IF is_note_on(m)
  THEN [notemap |-> DictSet(nm, m.channel,
                            (IF m.channel \in DOMAIN nm THEN nm[m.channel] ELSE {})
                              \cup {m.note}),
        raised |-> FALSE]
  ELSE [notemap |-> nm, raised |-> FALSE]

\* _record_note: a note-off for a note missing from its channel's set raises.
RecordNote(nm, m) ==
  IF is_note_on(m)
  THEN [notemap |-> DictSet(nm, m.channel,
                            (IF m.channel \in DOMAIN nm THEN nm[m.channel] ELSE {})
                              \cup {m.note}),
        raised |-> FALSE]
  ELSE IF m.channel \in DOMAIN nm
       THEN IF m.note \in nm[m.channel]
            THEN [notemap |-> [nm EXCEPT ![m.channel] = @ \ {m.note}], raised |-> FALSE]
            ELSE [notemap |-> nm, raised |-> TRUE]
       ELSE [notemap |-> nm, raised |-> FALSE]

\* (a tracker that shows the equivalents of a sounding position as sounding)
EquivVisPrimary(fc, m, equiv, cur_vis) ==
  IF map_channel(fc, equiv) # -1 /\ ~IsPrimary(cur_vis)
  THEN IF is_note_on(m) THEN "OnPrimary" ELSE "Off"
  ELSE cur_vis

\* The VisState written to an equivalent position of a recorded message.
EquivVis(fc, m, equiv, cur_vis) ==
  LET channel == map_channel(fc, equiv)
  IN IF channel # -1 /\ ~IsPrimary(cur_vis)
     THEN IF is_note_on(m)
          THEN IF channel = m.channel THEN "OnDisabled" ELSE "OnLinked"
          ELSE "Off"
     ELSE cur_vis

\* The body of record_fx's loop for one message.
RecordOne(fc, tr, m) ==
  LET v1 == SetVis(tr.vis, m.str_pos, IF is_note_on(m) THEN "OnPrimary" ELSE "Off")
      others == Equivs(fc, m.note) \ {m.str_pos}
      touched == DOMAIN v1 \cup others
      v2all == [sp \in touched |->
                 IF sp \in others THEN EquivVis(fc, m, sp, get_vis(v1, sp))
                 ELSE v1[sp]]
      v2 == [sp \in {p \in touched : v2all[p] # "Off"} |-> v2all[sp]]
      rn == RecordNote(tr.notemap, m)
  IN [vis |-> v2, notemap |-> rn.notemap, raised |-> rn.raised,
      dirty |-> tr.dirty \cup {m.str_pos} \cup others]

RECURSIVE RecordLoop(_, _, _, _)
RecordLoop(fc, tr, msgs, i) ==
  IF i > Len(msgs) \/ tr.raised THEN tr
  ELSE Only({RecordLoop(fc, t, msgs, i + 1) : t \in {RecordOne(fc, tr, msgs[i])}})

\* record_fx: the tracker after the messages, and the effects returned.
record_fx(fc, nm, v, msgs) ==
  RecordLoop(fc, [vis |-> v, notemap |-> nm, raised |-> FALSE, dirty |-> {}], msgs, 1)

\* A set of (channel, note) pairs as a sequence, lowest first.
RECURSIVE PairSeq(_)
PairSeq(S) ==
  IF S = {} THEN <<>>
  ELSE LET p == CHOOSE x \in S : \A y \in S :
                  x[1] < y[1] \/ (x[1] = y[1] /\ x[2] <= y[2])
       IN <<p>> \o PairSeq(S \ {p})

NotePairs(nm) == UNION {{<<ch, n>> : n \in nm[ch]} : ch \in DOMAIN nm}

\* Variants of clean_fx that forget the notes, or the positions.
clean_fx_msgs_none(nm) == <<>>

clean_fx_vis_none(v) == {}

\* clean_fx: note-offs for every note of the note map, Off for every position
\* whose VisState is not Off.
clean_fx_msgs(nm) ==
  LET ps == PairSeq(NotePairs(nm))
  IN [i \in 1 .. Len(ps) |-> [channel |-> ps[i][1], note |-> ps[i][2], velocity |-> 0]]

clean_fx_vis(v) == DOMAIN v

(***************************************************************************)
(* Fretboard.  fb is the record of the tracker's and the handler's state.  *)
(***************************************************************************)
\* A variant of the clamp that raises every velocity to the floor.
ClampEveryVelocity(fc, velocity) == Max(velocity, fc.min_velocity)

_clamp_velocity(fc, velocity) ==
  IF velocity = 0 THEN 0 ELSE Max(velocity, fc.min_velocity)

HandlerTrigger(fc, fb, fret_msg) ==
  IF fc.play_mode = "Tap"
  THEN LET h == ChokeNoteHandlerTrigger(fb.fingered, fret_msg)
       IN [fingered |-> h.fingered, last_off |-> fb.last_off, msgs |-> h.msgs]
  ELSE IF fc.play_mode = "Poly"
       THEN [fingered |-> fb.fingered, last_off |-> fb.last_off,
             msgs |-> PolyNoteHandlerTrigger(fret_msg)]
       ELSE LET h == MonoNoteHandlerTrigger(fb.last_off, fret_msg)
            IN [fingered |-> fb.fingered, last_off |-> h.last_off, msgs |-> h.msgs]

\* Fretboard.trigger: the fretboard after the call, the messages and the dirty
\* positions of the effects, and whether the call raised.
FretboardTrigger(fc, fb, str_pos, velocity) ==
  IF /\ IsEnabled(get_vis(fb.vis, str_pos))
     /\ get_note(fc, str_pos) # -1
     /\ map_channel(fc, str_pos) # -1
  THEN LET fret_msg == FretMsg(str_pos, map_channel(fc, str_pos),
                               get_note(fc, str_pos), _clamp_velocity(fc, velocity))
           Recorded(h) ==
             Only({[fb |-> [notemap |-> tr.notemap, vis |-> tr.vis,
                            fingered |-> h.fingered, last_off |-> h.last_off],
                    msgs |-> IF tr.raised THEN <<>> ELSE h.msgs,
                    dirty |-> IF tr.raised THEN {} ELSE tr.dirty,
                    raised |-> tr.raised] :
                     tr \in {record_fx(fc, fb.notemap, fb.vis, h.msgs)}})
       IN Only({Recorded(h) : h \in {HandlerTrigger(fc, fb, fret_msg)}})
  ELSE [fb |-> fb, msgs |-> <<>>, dirty |-> {}, raised |-> FALSE]

EmptyFretboard ==
  [notemap |-> <<>>, vis |-> <<>>, fingered |-> EmptyFingered, last_off |-> None]

\* Fretboard.handle_mapped_config: the effects of clean_fx, then a new mapper,
\* tracker, tuner and handler.
handle_mapped_config(fb) ==
  [fb |-> EmptyFretboard, msgs |-> clean_fx_msgs(fb.notemap), vis |-> clean_fx_vis(fb.vis)]

\* A variant of the reset that keeps the tracker and the handler.
FretboardHandleResetKeep(fb) ==
  [fb |-> fb, msgs |-> clean_fx_msgs(fb.notemap), vis |-> clean_fx_vis(fb.vis)]

\* Fretboard.handle_reset: the same clean-up under the configuration in place.
FretboardHandleReset(fb) == handle_mapped_config(fb)

(***************************************************************************)
(* Messages of the components, as the orchestrator sends them: to the      *)
(* processed port or to the controller.                                    *)
(***************************************************************************)
MidiMessage(m) ==
  [port |-> "processed", channel |-> m.channel, note |-> m.note,
   velocity |-> m.velocity,
   str_pos |-> IF "str_pos" \in DOMAIN m THEN m.str_pos ELSE None]

PadColorMessage(pos, color) == [port |-> "push", kind |-> "pad", pos |-> pos, color |-> color]

IsProcessed(m) == m.port = "processed"

\* NotePadColorMapper / MiscPadColorMapper(False) .get_color
get_color(is_note_pad, vs) ==
  IF is_note_pad
  THEN IF vs = "OnPrimary" THEN "primary_note"
       ELSE IF vs = "OnDisabled" THEN "disabled_note"
       ELSE IF vs = "OnLinked" THEN "linked_note"
       ELSE "scale_note"
  ELSE "led_off"

RECURSIVE PosSetSeq(_)
PosSetSeq(S) ==
  IF S = {} THEN <<>>
  ELSE LET p == CHOOSE x \in S : \A y \in S : to_index(x) <= to_index(y)
       IN <<p>> \o PosSetSeq(S \ {p})

RECURSIVE Concat(_)
Concat(ss) == IF ss = <<>> THEN <<>> ELSE Head(ss) \o Concat(Tail(ss))

Reverse(s) == [i \in 1 .. Len(s) |-> s[Len(s) + 1 - i]]

(***************************************************************************)
(* Pads (pads.py).  P is the record of the pads component: the root        *)
(* configuration it was last given, its fretboard, and for each pad its    *)
(* color mapper (a note pad or not) and pressed state.                     *)
(***************************************************************************)
NotePads(vc) == {pos \in AllPos : str_pos_from_pad_pos(vc, pos) # None}

PadPosOf(vc, S) ==
  {pad_pos_from_str_pos(vc, sp) : sp \in {x \in S : pad_pos_from_str_pos(vc, x) # None}}

\* The pressed state of the pads after the fretboard reported the positions
\* in dirty, whose VisState is now v.
SetPadVis(vc, pv, dirty, v) ==
  LET ps == PadPosOf(vc, dirty)
      all == [p \in DOMAIN pv \cup ps |->
                IF p \in ps
                THEN get_vis(v, CHOOSE sp \in dirty : pad_pos_from_str_pos(vc, sp) = p)
                ELSE pv[p]]
  IN [p \in {q \in DOMAIN all : all[q] # "Off"} |-> all[p]]

\* _handle_fret_msg: the MIDI message, then the color of the message's pad.
_handle_fret_msg(vc, pad_notes, m) ==
  LET pad_pos == pad_pos_from_str_pos(vc, m.str_pos)
  IN <<MidiMessage(m)>> \o
     (IF pad_pos # None
      THEN <<PadColorMessage(pad_pos,
               get_color(pad_pos \in pad_notes,
                         IF is_note_on(m) THEN "OnPrimary" ELSE "Off"))>>
      ELSE <<>>)

\* The colors of the other positions an effect reports.
VisMsgs(vc, pad_notes, sps, v) ==
  LET ps == PosSetSeq(PadPosOf(vc, sps))
  IN [i \in 1 .. Len(ps) |->
        PadColorMessage(ps[i],
          get_color(ps[i] \in pad_notes,
                    get_vis(v, CHOOSE sp \in sps : pad_pos_from_str_pos(vc, sp) = ps[i])))]

FretboardOf(P) ==
  [notemap |-> P.notemap, vis |-> P.vis, fingered |-> P.fingered, last_off |-> P.last_off]

WithFretboard(P, fb) ==
  [P EXCEPT !.notemap = fb.notemap, !.vis = fb.vis,
            !.fingered = fb.fingered, !.last_off = fb.last_off]

\* Pads.handle_event
PadsHandleEvent(P, pos, velocity) ==
  LET vc == ViewportConfig(P.pads_config)
      fc == FretboardConfig(P.pads_config)
      str_pos == str_pos_from_pad_pos(vc, pos)
  IN IF str_pos # None
     THEN Only({LET own == {r.msgs[i].str_pos : i \in 1 .. Len(r.msgs)}
                IN [P |-> [WithFretboard(P, r.fb) EXCEPT
                             !.pad_vis = SetPadVis(vc, P.pad_vis, r.dirty, r.fb.vis)],
                    msgs |-> Concat([i \in 1 .. Len(r.msgs) |->
                                       _handle_fret_msg(vc, P.pad_notes, r.msgs[i])])
                             \o VisMsgs(vc, P.pad_notes, r.dirty \ own, r.fb.vis),
                    raised |-> r.raised] :
                  r \in {FretboardTrigger(fc, FretboardOf(P), str_pos, velocity)}})
     ELSE [P |-> P, msgs |-> <<>>, raised |-> FALSE]

\* _pads_reset: new color mappers, then the color of every pad.
_pads_reset(vc, pv) ==
  [i \in 1 .. Len(PosSeq) |->
     PadColorMessage(PosSeq[i], get_color(str_pos_from_pad_pos(vc, PosSeq[i]) # None,
                                          get_vis(pv, PosSeq[i])))]

\* The messages of a fretboard clean-up: its note-offs, then the positions
\* it turned Off (mapped by the viewport in place).
CleanMsgs(vc, pad_notes, r) ==
  [i \in 1 .. Len(r.msgs) |-> MidiMessage(r.msgs[i])]
    \o VisMsgs(vc, pad_notes, r.vis, <<>>)

\* Pads.internal_handle_config
internal_handle_config(P, cfg) ==
  LET old_vc == ViewportConfig(P.pads_config)
      new_vc == ViewportConfig(cfg)
      fret_changed == FretboardConfig(cfg) # FretboardConfig(P.pads_config)
      Cleaned(r) ==
        Only({[P |-> [WithFretboard(P, r.fb) EXCEPT
                        !.pads_config = cfg, !.pad_vis = pv, !.pad_notes = NotePads(new_vc)],
               msgs |-> CleanMsgs(old_vc, P.pad_notes, r) \o _pads_reset(new_vc, pv)] :
                pv \in {SetPadVis(old_vc, P.pad_vis, r.vis, <<>>)}})
  IN IF fret_changed
     THEN Only({Cleaned(r) : r \in {handle_mapped_config(FretboardOf(P))}})
     ELSE [P |-> [P EXCEPT !.pads_config = cfg], msgs |-> <<>>]

\* Component.handle_root_config / handle_config: only a changed configuration
\* is handled.
PadsHandleRootConfig(P, cfg) ==
  IF cfg # P.pads_config THEN internal_handle_config(P, cfg)
  ELSE [P |-> P, msgs |-> <<>>]

\* Pads.handle_reset
PadsHandleReset(P) ==
  LET vc == ViewportConfig(P.pads_config)
      Wiped(r) ==
        Only({[P |-> [WithFretboard(P, r.fb) EXCEPT
                        !.pad_vis = pv, !.pad_notes = NotePads(vc)],
               msgs |-> CleanMsgs(vc, P.pad_notes, r) \o _pads_reset(vc, pv)] :
                pv \in {SetPadVis(vc, P.pad_vis, r.vis, <<>>)}})
  IN Only({Wiped(r) : r \in {FretboardHandleReset(FretboardOf(P))}})

InitPads(cfg) ==
  [pads_config |-> cfg, notemap |-> <<>>, vis |-> <<>>, fingered |-> EmptyFingered,
   last_off |-> None, pad_vis |-> <<>>, pad_notes |-> NotePads(ViewportConfig(cfg))]

(***************************************************************************)
(* Menu (menu.py)                                                          *)
(***************************************************************************)
Some(x) == [some |-> x]

Raise == [raise |-> TRUE]

Pages == <<"Device", "Scales", "Browse">>

\* Page.from_input_button
from_input_button(button) ==
  IF button \in {"Device", "Browse", "Scales"} THEN Some(button) ELSE None

ACTIVE_BUTTONS == <<"Undo", "Left", "Right", "Up", "Down", "OctaveDown", "OctaveUp">>

IntValRange(lo, hi) == [kind |-> "int", min_val |-> lo, max_val |-> hi]

\* ChoiceValRange.new: options is the dict {0: first, 1: second, ...}.
ChoiceValRange(opts) == [kind |-> "choice", options |-> [i \in 0 .. Len(opts) - 1 |-> opts[i + 1]]]

\* ValRange.render
render(range, value) == IF range.kind = "int" THEN ToString(value) ELSE value

\* ValRange.set_value: the index of a value, or None.
set_value(range, value) ==
  IF range.kind = "int"
  THEN IF value >= range.min_val /\ value <= range.max_val THEN Some(value) ELSE None
  ELSE IF \E i \in DOMAIN range.options : range.options[i] = value
       THEN Some(CHOOSE i \in DOMAIN range.options : range.options[i] = value)
       ELSE None

\* ValRange.succ / pred: None, a pair (index, value), or a raised KeyError.
succ(range, index) ==
  IF range.kind = "int"
  THEN IF index < range.min_val \/ index >= range.max_val THEN None
       ELSE Some(<<index + 1, index + 1>>)
  ELSE IF index < 0 \/ index < Cardinality(DOMAIN range.options) - 1 THEN None
       ELSE IF index + 1 \in DOMAIN range.options
            THEN Some(<<index + 1, range.options[index + 1]>>)
            ELSE Raise

pred(range, index) ==
  IF range.kind = "int"
  THEN IF index <= range.min_val \/ index > range.max_val THEN None
       ELSE Some(<<index - 1, index - 1>>)
  ELSE IF index <= 0 \/ index >= Cardinality(DOMAIN range.options) THEN None
       ELSE Some(<<index - 1, range.options[index - 1]>>)

high_sens == 1
low_sens == 4

KnobControl(name, sens, range, field) ==
  [name |-> name, sensitivity |-> sens, val_range |-> range, lens |-> field]

\* default_menu_layout
device_knob_controls ==
  <<KnobControl("MinVel", high_sens, IntValRange(0, 127), "min_velocity"),
    KnobControl("Layout", low_sens, ChoiceValRange(<<"Horiz", "Vert">>), "layout"),
    KnobControl("SemOff", low_sens, IntValRange(-63, 64), "fret_offset"),
    KnobControl("StrOff", low_sens, IntValRange(-11, 12), "str_offset")>>

\* KnobState.initial
KnobStateInitial(control, cfg) ==
  [accum |-> 0, index |-> set_value(control.val_range, cfg[control.lens]).some,
   val |-> cfg[control.lens]]

\* KnobState.update: the state after, or Raise for a value out of the range.
KnobStateUpdate(control, ks, cfg) ==
  LET new_val == cfg[control.lens]
      new_index == set_value(control.val_range, new_val)
  IN IF new_index = None THEN Raise
     ELSE IF ks.index # new_index.some
          THEN [accum |-> 0, index |-> new_index.some, val |-> new_val]
          ELSE ks

\* (a knob whose accumulator keeps counting at the end of the range)
accumulate_unclamped(control, ks, cfg, diff) ==
  LET new_accum == ks.accum + diff
      sens == control.sensitivity
      pair == IF new_accum <= -sens THEN pred(control.val_range, ks.index)
              ELSE IF new_accum >= sens THEN succ(control.val_range, ks.index)
              ELSE None
      moved == [accum |-> new_accum % sens, index |-> pair.some[1], val |-> pair.some[2]]
  IN IF pair = Raise THEN [ks |-> ks, config |-> None, raised |-> TRUE]
     ELSE IF pair = None
          THEN [ks |-> [ks EXCEPT !.accum = new_accum], config |-> None, raised |-> FALSE]
          ELSE [ks |-> moved, config |-> Some([cfg EXCEPT ![control.lens] = moved.val]),
                raised |-> FALSE]

\* KnobState.accumulate: the state after, and the new config or None.
accumulate(control, ks, cfg, diff) ==
  LET new_accum == ks.accum + diff
      sens == control.sensitivity
      pair == IF new_accum <= -sens THEN pred(control.val_range, ks.index)
              ELSE IF new_accum >= sens THEN succ(control.val_range, ks.index)
              ELSE None
      moved == [accum |-> new_accum % sens, index |-> pair.some[1], val |-> pair.some[2]]
  IN IF new_accum > -sens /\ new_accum < sens
     THEN [ks |-> [ks EXCEPT !.accum = new_accum], config |-> None, raised |-> FALSE]
     ELSE IF pair = Raise THEN [ks |-> ks, config |-> None, raised |-> TRUE]
     ELSE IF pair = None
          THEN [ks |-> [ks EXCEPT !.accum = IF new_accum <= -sens THEN -sens ELSE sens],
                config |-> None, raised |-> FALSE]
          ELSE [ks |-> moved, config |-> Some([cfg EXCEPT ![control.lens] = moved.val]),
                raised |-> FALSE]

\* MenuState.initial
MenuStateInitial(cfg) ==
  [config |-> cfg, cur_page |-> "Device",
   knob_states |-> [i \in 1 .. Len(device_knob_controls) |->
                      KnobStateInitial(device_knob_controls[i], cfg)]]

\* MenuState._set_config (DeviceState.update, then the assignment).  A knob
\* whose range lacks the new value raises before the config is assigned; the
\* knobs before it keep their update.
_set_config(m, new_config) ==
  LET upd == [i \in 1 .. Len(m.knob_states) |->
                KnobStateUpdate(device_knob_controls[i], m.knob_states[i], new_config)]
      bad == {i \in 1 .. Len(upd) : upd[i] = Raise}
      first == CHOOSE i \in bad : \A j \in bad : i <= j
  IN IF bad = {}
     THEN [menu |-> [m EXCEPT !.knob_states = upd, !.config = new_config], raised |-> FALSE]
     ELSE [menu |-> [m EXCEPT !.knob_states =
                       [i \in 1 .. Len(upd) |-> IF i < first THEN upd[i] ELSE @[i]]],
           raised |-> TRUE]

shift_semitones(m, diff) ==
  _set_config(m, [m.config EXCEPT !.fret_offset = @ + diff])

shift_strings(m, diff) ==
  _set_config(m, [m.config EXCEPT !.str_offset = @ + diff])

\* (a menu whose knobs turn on every page)
turn_knob_on_any_page(m, offset, diff) ==
  IF offset >= 0 /\ offset < Len(m.knob_states)
  THEN LET a == accumulate(device_knob_controls[offset + 1], m.knob_states[offset + 1],
                           m.config, diff)
           m1 == [m EXCEPT !.knob_states[offset + 1] = a.ks]
       IN IF a.config # None
          THEN [menu |-> [m1 EXCEPT !.config = a.config.some], updated |-> TRUE,
                raised |-> FALSE]
          ELSE [menu |-> m1, updated |-> FALSE, raised |-> a.raised]
  ELSE [menu |-> m, updated |-> FALSE, raised |-> FALSE]

\* MenuState.turn_knob
turn_knob(m, offset, diff) ==
  IF m.cur_page = "Device" /\ offset >= 0 /\ offset < Len(m.knob_states)
  THEN LET a == accumulate(device_knob_controls[offset + 1], m.knob_states[offset + 1],
                           m.config, diff)
           m1 == [m EXCEPT !.knob_states[offset + 1] = a.ks]
       IN IF a.config # None
          THEN [menu |-> [m1 EXCEPT !.config = a.config.some], updated |-> TRUE,
                raised |-> FALSE]
          ELSE [menu |-> m1, updated |-> FALSE, raised |-> a.raised]
  ELSE [menu |-> m, updated |-> FALSE, raised |-> FALSE]

\* MenuState.redraw: the calls made on the controller.
redraw(m) ==
  <<[port |-> "push", kind |-> "clear"]>>
  \o [i \in 1 .. Len(Pages) |->
        [port |-> "push", kind |-> "button", button |-> Pages[i],
         illum |-> IF Pages[i] = m.cur_page THEN "Full" ELSE "Half"]]
  \o [i \in 1 .. Len(ACTIVE_BUTTONS) |->
        [port |-> "push", kind |-> "button", button |-> ACTIVE_BUTTONS[i], illum |-> "Half"]]
  \o (IF m.cur_page = "Device"
      THEN Concat([i \in 1 .. Len(m.knob_states) |->
             <<[port |-> "push", kind |-> "lcd", half_col |-> i - 1,
                text |-> device_knob_controls[i].name],
               [port |-> "push", kind |-> "lcd", half_col |-> i - 1,
                text |-> render(device_knob_controls[i].val_range,
                                m.knob_states[i].val)]>>])
      ELSE <<>>)

ButtonShift(m, button) ==
  IF button = "OctaveDown" THEN shift_semitones(m, -12)
  ELSE IF button = "OctaveUp" THEN shift_semitones(m, 12)
  ELSE IF button = "Left" THEN shift_semitones(m, -1)
  ELSE IF button = "Right" THEN shift_semitones(m, 1)
  ELSE IF button = "Up" THEN shift_strings(m, 1)
  ELSE shift_strings(m, -1)

\* Menu.handle_event: the menu after, whether it was updated (and so redrawn,
\* its config returned), and whether the call raised.
MenuHandleEvent(m, event) ==
  IF event.type = "Button"
  THEN IF event.pressed
       THEN IF from_input_button(event.button) # None
            THEN IF m.cur_page # event.button
                 THEN [menu |-> [m EXCEPT !.cur_page = event.button], updated |-> TRUE,
                       raised |-> FALSE]
                 ELSE [menu |-> m, updated |-> FALSE, raised |-> FALSE]
            ELSE IF event.button \in {"OctaveDown", "OctaveUp", "Left", "Right", "Up", "Down"}
                 THEN LET r == ButtonShift(m, event.button)
                      IN [menu |-> r.menu, updated |-> ~r.raised, raised |-> r.raised]
                 ELSE [menu |-> m, updated |-> FALSE, raised |-> FALSE]
       ELSE [menu |-> m, updated |-> FALSE, raised |-> FALSE]
  ELSE IF event.type = "Knob" /\ event.group = "Center"
       THEN turn_knob(m, event.offset, IF event.clockwise THEN 1 ELSE -1)
       ELSE [menu |-> m, updated |-> FALSE, raised |-> FALSE]

\* A variant of the menu's reset that stays on the page in view.
MenuHandleResetScales(init_cfg) == [MenuStateInitial(init_cfg) EXCEPT !.cur_page = "Scales"]

\* Menu.handle_reset
MenuHandleReset(init_cfg) == MenuStateInitial(init_cfg)

(***************************************************************************)
(* Plucked (plucked.py): the orchestrator.  st is the record of its config, *)
(* its pads component P and the messages sent so far while handling the    *)
(* event.                                                                  *)
(***************************************************************************)
ConfigMessage(cfg) == [port |-> "config", config |-> cfg]

\* (an orchestrator that keeps a changed config to itself)
_handle_config_keep_pads(st, cfg) ==
  [st |-> [st EXCEPT !.config = cfg], msgs |-> <<>>]

\* Plucked._handle_config
_handle_config(st, cfg) ==
  IF cfg # st.config
  THEN Only({[st |-> [st EXCEPT !.config = cfg, !.P = r.P], msgs |-> r.msgs] :
               r \in {PadsHandleRootConfig(st.P, cfg)}})
  ELSE [st |-> st, msgs |-> <<>>]

\* Plucked._handle_msg: a message for a port is sent; a changed config is
\* handled and what that returns is put in next_msgs.
_handle_msg(st, msg) ==
  IF msg.port = "config"
  THEN _handle_config(st, msg.config)
  ELSE [st |-> [st EXCEPT !.out = Append(@, msg)], msgs |-> <<>>]

\* The number of messages for a port at the head of the queue.
PortRun(work) ==
  IF \E i \in 1 .. Len(work) : work[i].port = "config"
  THEN (CHOOSE i \in 1 .. Len(work) :
          /\ work[i].port = "config"
          /\ \A j \in 1 .. i - 1 : work[j].port # "config") - 1
  ELSE Len(work)

\* _handle_msg on work[lo], ..., work[hi] in order, all of them messages for
\* a port (which put nothing in next_msgs); the run is handled in two halves.
RECURSIVE SendRun(_, _, _, _)
SendRun(st, work, lo, hi) ==
  IF lo > hi THEN st
  ELSE IF lo = hi THEN _handle_msg(st, work[lo]).st
  ELSE LET mid == (lo + hi) \div 2
       IN Only({SendRun(half, work, mid + 1, hi) : half \in {SendRun(st, work, lo, mid)}})

\* Plucked._handle_msgs: the queue is handled from its head; after a message
\* work.extendleft(next_msgs) puts the next messages at the front of the queue
\* one at a time, the last of them first.
RECURSIVE _handle_msgs(_, _)
_handle_msgs(st, work) ==
  IF work = <<>> THEN st
  ELSE IF Head(work).port = "config"
       THEN Only({_handle_msgs(r.st, Reverse(r.msgs) \o Tail(work)) :
                    r \in {_handle_msg(st, Head(work))}})
       ELSE Only({_handle_msgs(done, SubSeq(work, PortRun(work) + 1, Len(work))) :
                    done \in {SendRun(st, work, 1, PortRun(work))}})

\* Plucked.reset
reset(st, init_cfg) ==
  Only({[st |-> _handle_msgs([st1 EXCEPT !.out = @ \o redraw(m)],
                             <<ConfigMessage(m.config)>>),
         menu |-> m] :
          st1 \in {_handle_msgs([st EXCEPT !.P = r.P], r.msgs) :
                     r \in {PadsHandleReset(st.P)}},
          m \in {MenuHandleReset(init_cfg)}})

(***************************************************************************)
(* What the processed port hears.                                          *)
(***************************************************************************)
Processed(msgs) == SelectSeq(msgs, IsProcessed)

\* The (channel, note) pairs sounding on the port after one more message.
SoundStep(snd, m) ==
  IF m.velocity > 0 THEN snd \cup {<<m.channel, m.note>>}
  ELSE snd \ {<<m.channel, m.note>>}

RECURSIVE SoundAfter(_, _, _)
SoundAfter(snd, msgs, k) ==
  IF k = 0 THEN snd
  ELSE Only({SoundStep(before, msgs[k]) : before \in {SoundAfter(snd, msgs, k - 1)}})

\* The notes each string has sounding: a note-on counts for the string of the
\* position it was emitted for; a note-off silences its note on every string
\* of its channel.
StrStep(fc, so, m) ==
  [s \in DOMAIN so |->
     IF m.velocity > 0
     THEN IF m.str_pos # None /\ m.str_pos.str_index = s THEN so[s] \cup {m.note} ELSE so[s]
     ELSE IF map_channel(fc, StringPos(s, 0)) = m.channel THEN so[s] \ {m.note} ELSE so[s]]

RECURSIVE StrAfter(_, _, _, _)
StrAfter(fc, so, msgs, k) ==
  IF k = 0 THEN so
  ELSE Only({StrStep(fc, before, msgs[k]) : before \in {StrAfter(fc, so, msgs, k - 1)}})

\* The most notes any one string has sounding before, between and after the
\* messages.
PeakOf(fc, so, msgs) ==
  LET counts == {Cardinality(StrAfter(fc, so, msgs, k)[s]) :
                   k \in 0 .. Len(msgs), s \in DOMAIN so}
  IN CHOOSE m \in counts : \A x \in counts : x <= m

NoteOns(msgs) == SelectSeq(Processed(msgs), is_note_on)

IsNoteOff(m) == m.port = "processed" /\ m.velocity = 0

NoteOffs(msgs) == SelectSeq(msgs, IsNoteOff)

(***************************************************************************)
(* Shadow (shadow.py): the state last emitted to the controller, and the   *)
(* diff buffer of a context() scope.                                       *)
(***************************************************************************)
\* The pads, buttons, colors, illuminations and texts the scopes write.
ShadowPads == {pos \in AllPos : to_index(pos) < NumShadowPads}
ShadowButtons == {"Undo"}
ShadowColors == {[color |-> "primary_note"], [color |-> "scale_note"]}
ShadowIllums == {[illum |-> "Half"], [illum |-> "Full"]}
ShadowTexts == {<<"a">>, <<"b">>}

\* LcdRow.__init__: a line of blanks.
LcdRow == [i \in 1 .. LineLen |-> " "]

\* LcdRow.set_text: the buffer with text written from column start.
set_text(buffer, start, text) ==
  [i \in 1 .. LineLen |->
     IF i > start /\ i <= start + Len(text) THEN text[i - start] ELSE buffer[i]]

\* PushState.reset: every pad and button None, every LCD row blank.
PushStateReset ==
  [lcd |-> [row \in 0 .. NumLcdRows - 1 |-> LcdRow],
   pads |-> [pos \in ShadowPads |-> None],
   buttons |-> [button \in ShadowButtons |-> None]]

\* PushState.diff: three empty dicts.  A dict of the diff buffer is the
\* sequence of its items in insertion order, as _emit iterates it.
PushStateDiff == [lcd |-> <<>>, pads |-> <<>>, buttons |-> <<>>]

HasKey(items, k) == \E i \in 1 .. Len(items) : items[i].key = k

ItemOf(items, k) == items[CHOOSE i \in 1 .. Len(items) : items[i].key = k].val

\* items[k] = v: a key of the dict keeps its place, a new one goes last.
ItemSet(items, k, v) ==
  IF HasKey(items, k)
  THEN [i \in 1 .. Len(items) |-> IF items[i].key = k THEN [key |-> k, val |-> v]
                                                   ELSE items[i]]
  ELSE Append(items, [key |-> k, val |-> v])

\* PushShadowManaged: pad_led_off, pad_set_color (color None is the off).
managed_pad(diff, pos, color) == [diff EXCEPT !.pads = ItemSet(@, pos, color)]

\* PushShadowManaged: button_off, button_set_illum.
managed_button(diff, button, illum) == [diff EXCEPT !.buttons = ItemSet(@, button, illum)]

\* PushShadowManaged.lcd_display_raw: a row not yet in the diff starts blank.
managed_lcd_display_raw(diff, row, line_col, text) ==
  [diff EXCEPT !.lcd =
     ItemSet(@, row, set_text(IF HasKey(@, row) THEN ItemOf(@, row) ELSE LcdRow,
                              line_col, text))]

\* One round of the loop of _emit_lcd on acc = [state, sent, raised].
EmitLcdItem(acc, item) ==
  IF acc.raised THEN acc
  ELSE IF acc.state.lcd[item.key] # item.val
       THEN [acc EXCEPT !.state.lcd[item.key] = item.val,
                        !.sent = Append(@, [kind |-> "lcd_display_raw", row |-> item.key,
                                            line_col |-> 0, text |-> item.val])]
       ELSE acc

\* One round of the loop of _emit_pads: the lookup of a deleted key raises
\* KeyError; an off deletes the key, a color is stored.
EmitPadItem(acc, item) ==
  IF acc.raised THEN acc
  ELSE IF item.key \notin DOMAIN acc.state.pads THEN [acc EXCEPT !.raised = TRUE]
  ELSE IF acc.state.pads[item.key] = item.val THEN acc
  ELSE IF item.val = None
       THEN [acc EXCEPT !.state.pads = DictDel(@, item.key),
                        !.sent = Append(@, [kind |-> "pad_led_off", pos |-> item.key])]
       ELSE [acc EXCEPT !.state.pads = DictSet(@, item.key, item.val),
                        !.sent = Append(@, [kind |-> "pad_set_color", pos |-> item.key,
                                            color |-> item.val])]

\* One round of the loop of _emit_buttons: an off deletes the key, an
\* illumination is sent and not stored.
EmitButtonItem(acc, item) ==
  IF acc.raised THEN acc
  ELSE IF item.key \notin DOMAIN acc.state.buttons THEN [acc EXCEPT !.raised = TRUE]
  ELSE IF acc.state.buttons[item.key] = item.val THEN acc
  ELSE IF item.val = None
       THEN [acc EXCEPT !.state.buttons = DictDel(@, item.key),
                        !.sent = Append(@, [kind |-> "button_off", button |-> item.key])]
       ELSE [acc EXCEPT !.sent = Append(@, [kind |-> "button_set_illum",
                                            button |-> item.key, illum |-> item.val])]

RECURSIVE _emit_lcd(_, _)
_emit_lcd(acc, items) ==
  IF items = <<>> THEN acc
  ELSE Only({_emit_lcd(a, Tail(items)) : a \in {EmitLcdItem(acc, Head(items))}})

RECURSIVE _emit_pads(_, _)
_emit_pads(acc, items) ==
  IF items = <<>> THEN acc
  ELSE Only({_emit_pads(a, Tail(items)) : a \in {EmitPadItem(acc, Head(items))}})

RECURSIVE _emit_buttons(_, _)
_emit_buttons(acc, items) ==
  IF items = <<>> THEN acc
  ELSE Only({_emit_buttons(a, Tail(items)) : a \in {EmitButtonItem(acc, Head(items))}})

\* PushShadow._emit: the LCD, then the pads, then the buttons.
_emit(state, diff) ==
  Only({_emit_buttons(p, diff.buttons) :
          p \in {_emit_pads(l, diff.pads) :
                   l \in {_emit_lcd([state |-> state, sent |-> <<>>, raised |-> FALSE],
                                    diff.lcd)}}})

(***************************************************************************)
(* State                                                                   *)
(***************************************************************************)
VARIABLES
  config,       \* Plucked._config
  initial,      \* the config the program was constructed with (Menu._init_config)
  pads_config,  \* the config last handed to Pads (its fretboard's and viewport's)
  notemap,      \* NoteTracker._notemap
  vis,          \* NoteTracker._fretboard, the positions not Off
  fingered,     \* ChokeNoteHandler._fingered
  last_off,     \* MonoNoteHandler._last_off
  pad_vis,      \* PadsState: the pads shown pressed
  pad_notes,    \* PadsState: the pads with a note color mapper
  menu,         \* Menu._state
  held,         \* the pads the player holds down, each with the velocity of its press
  ev,           \* the event handled last
  out,          \* the messages sent while handling it, in order
  sounding,     \* the (channel, note) pairs sounding on the processed port
  strOn,        \* for each string, its notes sounding on the processed port
  strPeak,      \* the most notes one string had sounding while the event was handled
  undos,        \* the Undo presses handled in a row up to now (counted up to MaxUndos)
  raised,       \* an exception left the event loop
  shadow_state, \* PushShadow._state: the state last emitted to the controller
  diff_state,   \* the diff buffer of the open context() scope, or None
  sent,         \* the calls the shadow made on the controller at the last scope exit
  call,         \* the function called last on its own, with its arguments
  ret,          \* what that call returned
  queue,        \* MidiInput._queue, the SimpleQueue the port's callback puts into
  produced,     \* the messages the callback has put, in order
  loop_msg,     \* msg of main_with_ports: received and not yet sent on, or None
  handled,      \* the messages controller.send_msg has handled, in order
  pc,           \* where main_with_ports is: "recv", "send" or "exited"
  clock,        \* time.monotonic()
  last_sent,    \* MidiOutput._last_sent
  sent_at       \* the times of the port's last two sends

\* The orchestrator and its port, the shadow driver, and the functions called
\* on their own.
PluckedVars == <<config, initial, pads_config, notemap, vis, fingered, last_off, pad_vis,
                 pad_notes, menu, held, ev, out, sounding, strOn, strPeak, undos>>

ShadowVars == <<shadow_state, diff_state, sent>>

CallVars == <<call, ret>>

PortVars == <<clock, last_sent, sent_at>>

MainVars == <<queue, produced, loop_msg, handled, pc, PortVars>>

vars == <<PluckedVars, raised, ShadowVars, CallVars, MainVars>>

PadsNow ==
  [pads_config |-> pads_config, notemap |-> notemap, vis |-> vis, fingered |-> fingered,
   last_off |-> last_off, pad_vis |-> pad_vis, pad_notes |-> pad_notes]

StNow == [config |-> config, P |-> PadsNow, out |-> <<>>]

PlayPads == {pos \in AllPos : to_index(pos) \in FirstPad .. FirstPad + NumPlayPads - 1}

SetPads(P) ==
  /\ pads_config' = P.pads_config
  /\ notemap' = P.notemap
  /\ vis' = P.vis
  /\ fingered' = P.fingered
  /\ last_off' = P.last_off
  /\ pad_vis' = P.pad_vis
  /\ pad_notes' = P.pad_notes

\* The port after the event: what was sounding, then the messages in order.
Hear(fc, msgs) ==
  \E pm \in {Processed(msgs)} :
    /\ sounding' = SoundAfter(sounding, pm, Len(pm))
    /\ strOn' = StrAfter(fc, strOn, pm, Len(pm))
    /\ strPeak' = PeakOf(fc, strOn, pm)

InitWith(cfg) ==
  LET P == InitPads(cfg)
  IN /\ config = cfg
     /\ initial = cfg
     /\ pads_config = P.pads_config
     /\ notemap = P.notemap
     /\ vis = P.vis
     /\ fingered = P.fingered
     /\ last_off = P.last_off
     /\ pad_vis = P.pad_vis
     /\ pad_notes = P.pad_notes
     /\ menu = MenuStateInitial(cfg)
     /\ held = <<>>
     /\ ev = [type |-> "Start"]
     /\ out = <<>>
     /\ sounding = {}
     /\ strOn = [s \in 0 .. NumStrings - 1 |-> {}]
     /\ strPeak = 0
     /\ undos = 0
     /\ raised = FALSE
     /\ shadow_state = PushStateReset
     /\ diff_state = None
     /\ sent = <<>>
     /\ call = [fn |-> "none"]
     /\ queue = <<>>
     /\ produced = <<>>
     /\ loop_msg = None
     /\ handled = <<>>
     /\ pc = "recv"
     /\ clock = 0
     /\ last_sent = 0
     /\ sent_at = <<>>
     /\ ret = None

\* The program as main.py starts it, in Tap mode, on one channel or on one
\* channel per string.
InitTap ==
  \E cm \in ChannelModes : InitWith([init_config(0) EXCEPT !.chan_mode = cm])

\* The program constructed with any play mode, channel mode and velocity
\* floor within the bound.
Init ==
  \E pm \in PlayModes, cm \in ChannelModes :
    InitWith([init_config(0) EXCEPT !.play_mode = pm, !.chan_mode = cm])

(***************************************************************************)
(* Actions: Plucked.handle_event for each kind of event.                   *)
(***************************************************************************)
PadEvent(pos, velocity) == [type |-> "Pad", pos |-> pos, velocity |-> velocity]

ButtonEvent(button, pressed) == [type |-> "Button", button |-> button, pressed |-> pressed]

KnobEvent(group, offset, clockwise) ==
  [type |-> "Knob", group |-> group, offset |-> offset, clockwise |-> clockwise]

TimeDivEvent(time_div, pressed) == [type |-> "TimeDiv", time_div |-> time_div, pressed |-> pressed]

GridSelEvent(gs_pos, pressed) == [type |-> "GridSel", gs_pos |-> gs_pos, pressed |-> pressed]

ChanSelEvent(cs_pos, pressed) == [type |-> "ChanSel", cs_pos |-> cs_pos, pressed |-> pressed]

(***************************************************************************)
(* MIDI input: the controller's messages and their decoding (constants.py, *)
(* pos.py, midi.py, push.py)                                               *)
(***************************************************************************)
KnobCC == [L0 |-> 14, L1 |-> 15, C0 |-> 71, C1 |-> 72, C2 |-> 73, C3 |-> 74, C4 |-> 75,
           C5 |-> 76, C6 |-> 77, C7 |-> 78, R0 |-> 79]

ButtonCC ==
  [TapTempo |-> 3, Metronome |-> 9, Undo |-> 119, Delete |-> 118, Double |-> 117,
   Quantize |-> 116, FixedLength |-> 90, Automation |-> 89, Duplicate |-> 88, New |-> 87,
   Rec |-> 86, Play |-> 85, Master |-> 28, Stop |-> 29, Left |-> 44, Right |-> 45,
   Up |-> 46, Down |-> 47, Volume |-> 114, PanAndSend |-> 115, Track |-> 112, Clip |-> 113,
   Device |-> 110, Browse |-> 111, StepIn |-> 62, StepOut |-> 63, Mute |-> 60, Solo |-> 61,
   Scales |-> 58, User |-> 59, Repeat |-> 56, Accent |-> 57, OctaveDown |-> 54,
   OctaveUp |-> 55, AddEffect |-> 52, AddTrack |-> 53, Note |-> 50, Session |-> 51,
   Select |-> 48, Shift |-> 49]

TimeDivCC ==
  [TimeQuarter |-> 36, TimeQuarterTriplet |-> 37, TimeEighth |-> 38,
   TimeEighthTriplet |-> 39, TimeSixteenth |-> 40, TimeSixteenthTriplet |-> 41,
   TimeThirtysecond |-> 42, TimeThirtysecondTriplet |-> 43]

\* make_enum_value_lookup(enum).get(value): Some member with the value, or
\* None.
value_lookup(enum, value) ==
  IF \E name \in DOMAIN enum : enum[name] = value
  THEN Some(CHOOSE name \in DOMAIN enum : enum[name] = value)
  ELSE None

\* knob_group_and_offset
knob_group_and_offset(knob) ==
  IF KnobCC[knob] >= KnobCC.R0 THEN <<"Right", KnobCC[knob] - KnobCC.R0>>
  ELSE IF KnobCC[knob] >= KnobCC.C0 THEN <<"Center", KnobCC[knob] - KnobCC.C0>>
  ELSE <<"Left", KnobCC[knob] - KnobCC.L0>>

HIGH_NOTE == LOW_NOTE + NUM_PAD_ROWS * NUM_PAD_COLS

\* (a decoder that takes HIGH_NOTE for a pad)
from_input_note_through_high(note) ==
  IF note < LOW_NOTE \/ note > HIGH_NOTE THEN None
  ELSE Pos((note - LOW_NOTE) \div NUM_PAD_COLS, (note - LOW_NOTE) % NUM_PAD_COLS)

\* Pos.from_input_note
from_input_note(note) ==
  IF note < LOW_NOTE \/ note >= HIGH_NOTE THEN None
  ELSE Pos((note - LOW_NOTE) \div NUM_PAD_COLS, (note - LOW_NOTE) % NUM_PAD_COLS)

ChanSelPos(col) == [col |-> col]

GridSelPos(col) == [col |-> col]

\* ChanSelPos.to_control / GridSelPos.to_control
chan_sel_to_control(cs_pos) == LOW_CHAN_CONTROL + cs_pos.col

grid_sel_to_control(gs_pos) == LOW_GRID_CONTROL + gs_pos.col

\* ChanSelPos.from_input_control
chan_sel_from_input_control(control) ==
  LET col == control - LOW_CHAN_CONTROL
  IN IF col < 0 \/ col > NUM_PAD_COLS THEN None ELSE ChanSelPos(col)

\* GridSelPos.from_input_control
grid_sel_from_input_control(control) ==
  LET col == control - LOW_GRID_CONTROL
  IN IF col < 0 \/ col > NUM_PAD_COLS THEN None ELSE GridSelPos(col)

\* midi.is_note_msg
is_note_msg(msg) == msg.type = "note_on" \/ msg.type = "note_off"

\* KnobEvent.match (the event's knob field is determined by group and offset
\* and is left out)
KnobEventMatch(msg) ==
  IF msg.type = "control_change" /\ value_lookup(KnobCC, msg.control) # None
  THEN LET go == knob_group_and_offset(value_lookup(KnobCC, msg.control).some)
       IN KnobEvent(go[1], go[2], msg.value < 127)
  ELSE None

\* ButtonEvent.match
ButtonEventMatch(msg) ==
  IF msg.type = "control_change" /\ value_lookup(ButtonCC, msg.control) # None
  THEN ButtonEvent(value_lookup(ButtonCC, msg.control).some, msg.value > 0)
  ELSE None

\* PadEvent.match
PadEventMatch(msg) ==
  IF is_note_msg(msg) /\ from_input_note(msg.note) # None
  THEN PadEvent(from_input_note(msg.note), msg.velocity)
  ELSE None

\* TimeDivEvent.match
TimeDivEventMatch(msg) ==
  IF msg.type = "control_change" /\ value_lookup(TimeDivCC, msg.control) # None
  THEN TimeDivEvent(value_lookup(TimeDivCC, msg.control).some, msg.value > 0)
  ELSE None

\* GridSelEvent.match
GridSelEventMatch(msg) ==
  IF msg.type = "control_change" /\ grid_sel_from_input_control(msg.control) # None
  THEN GridSelEvent(grid_sel_from_input_control(msg.control), msg.value > 0)
  ELSE None

\* ChanSelEvent.match
ChanSelEventMatch(msg) ==
  IF msg.type = "control_change" /\ chan_sel_from_input_control(msg.control) # None
  THEN ChanSelEvent(chan_sel_from_input_control(msg.control), msg.value > 0)
  ELSE None

\* The first event of a sequence of match results that is not None.
FirstMatch(results) ==
  IF \E i \in 1 .. Len(results) : results[i] # None
  THEN results[CHOOSE i \in 1 .. Len(results) :
                 results[i] # None /\ \A j \in 1 .. i - 1 : results[j] = None]
  ELSE None

\* (a decoder that asks the selectors before the buttons)
match_event_selectors_first(msg) ==
  FirstMatch(<<KnobEventMatch(msg), GridSelEventMatch(msg), ChanSelEventMatch(msg),
               ButtonEventMatch(msg), PadEventMatch(msg), TimeDivEventMatch(msg)>>)

\* push.match_event
match_event(msg) ==
  FirstMatch(<<KnobEventMatch(msg), ButtonEventMatch(msg), PadEventMatch(msg),
               TimeDivEventMatch(msg), GridSelEventMatch(msg), ChanSelEventMatch(msg)>>)

\* handle_event of a PadEvent.
PadEventHandled(pos, velocity) ==
  \E r \in {PadsHandleEvent(PadsNow, pos, velocity)} :
    \E st \in {_handle_msgs([StNow EXCEPT !.P = r.P], r.msgs)} :
      /\ ~raised
      /\ ev' = PadEvent(pos, velocity)
      /\ held' = IF velocity > 0 THEN DictSet(held, pos, velocity)
                 ELSE DictDel(held, pos)
      /\ SetPads(st.P)
      /\ out' = st.out
      /\ raised' = r.raised
      /\ Hear(FretboardConfig(pads_config), st.out)
      /\ undos' = 0
      /\ UNCHANGED <<config, initial, menu, ShadowVars, CallVars>>

\* (the same, called on its own rather than from the main loop)
HandlePadEvent(pos, velocity) == PadEventHandled(pos, velocity) /\ UNCHANGED MainVars

\* Any pad message of the play area, as a MIDI source can send it.
TapPadEvent ==
  \E pos \in PlayPads, velocity \in 0 .. MaxVel : HandlePadEvent(pos, velocity)

\* The player presses a pad that is up ...
PlayerPress(limit, velocities) ==
  \E pos \in PlayPads \ DOMAIN held, velocity \in velocities :
    /\ Cardinality(DOMAIN held) < limit
    /\ HandlePadEvent(pos, velocity)

\* (in the orchestrator's specification at full velocity, and with at most
\* MaxHeld pads down)
PadPress == PlayerPress(MaxHeld, {MaxVel})

TapPress == PlayerPress(NumPlayPads, 1 .. MaxVel)

\* ... or releases one that is down.
PadRelease ==
  \E pos \in DOMAIN held : HandlePadEvent(pos, 0)

\* handle_event of the Undo button: pressed, a reset; released, nothing.
UndoEvent(pressed) ==
  /\ ~raised
  /\ ev' = ButtonEvent("Undo", pressed)
  /\ undos' = IF pressed THEN (IF undos < MaxUndos THEN undos + 1 ELSE undos) ELSE 0
  /\ IF pressed
     THEN \E r \in {reset(StNow, initial)} :
            /\ SetPads(r.st.P)
            /\ config' = r.st.config
            /\ menu' = r.menu
            /\ out' = r.st.out
            /\ Hear(FretboardConfig(pads_config), r.st.out)
     ELSE /\ out' = <<>>
          /\ strPeak' = PeakOf(FretboardConfig(pads_config), strOn, <<>>)
          /\ UNCHANGED <<config, pads_config, notemap, vis, fingered, last_off,
                         pad_vis, pad_notes, menu, sounding, strOn>>
  /\ UNCHANGED <<initial, held, raised, ShadowVars, CallVars, MainVars>>

UndoButton == \E pressed \in BOOLEAN : UndoEvent(pressed)

WithinCaps(cfg) ==
  /\ cfg.min_velocity <= MaxMinVel
  /\ cfg.fret_offset >= 0
  /\ cfg.fret_offset <= MaxShift

\* The other events the player sends.
MenuEvents ==
  {ButtonEvent(b, TRUE) : b \in {"Device", "Scales", "Left", "Right"}}
    \cup {ButtonEvent("Scales", FALSE)}
    \cup {KnobEvent("Center", 0, cw) : cw \in BOOLEAN}
    \cup {KnobEvent("Left", 0, TRUE)}

\* handle_event of any other event: the menu handles it and redraws when it
\* was updated; the config it returns is then handled as a changed config.
HandleOtherEvent(e) ==
  \E r \in {MenuHandleEvent(menu, e)} :
    \E st0 \in {[StNow EXCEPT !.out = IF r.updated THEN redraw(r.menu) ELSE <<>>]} :
      \E st \in {IF r.updated THEN _handle_msgs(st0, <<ConfigMessage(r.menu.config)>>)
                  ELSE st0} :
        /\ ~raised
        /\ ev' = e
        /\ undos' = 0
        /\ menu' = r.menu
        /\ raised' = r.raised
        /\ config' = st.config
        /\ SetPads(st.P)
        /\ out' = st.out
        /\ Hear(FretboardConfig(pads_config), st.out)
        /\ UNCHANGED <<initial, held, ShadowVars, CallVars, MainVars>>

OtherEvent ==
  \E e \in MenuEvents :
    /\ WithinCaps(MenuHandleEvent(menu, e).menu.config)
    /\ HandleOtherEvent(e)

\* Tap mode under any pad messages.
NextTap == TapPadEvent

SpecTap == InitTap /\ [][NextTap]_vars

\* Tap mode under a player's hands: presses of pads that are up, releases of
\* pads that are down.
NextTapPlayed == TapPress \/ PadRelease

SpecTapPlayed == InitTap /\ [][NextTapPlayed]_vars

\* Any play mode and channel mode under a player's hands, the program started
\* with a velocity floor (init_config(min_velocity)).
InitFloor ==
  \E pm \in PlayModes, cm \in ChannelModes, mv \in 0 .. MaxFloor :
    InitWith([init_config(mv) EXCEPT !.play_mode = pm, !.chan_mode = cm])

NextFloor == TapPress \/ PadRelease

SpecFloor == InitFloor /\ [][NextFloor]_vars

Next == PadPress \/ PadRelease \/ UndoButton \/ OtherEvent

Spec == Init /\ [][Next]_vars

(***************************************************************************)
(* Tap mode: the choke handler seen from the pads and from the port.        *)
(***************************************************************************)
StrPosOf(pos) == str_pos_from_pad_pos(ViewportConfig(pads_config), pos)

MaxOf(S) == CHOOSE m \in S : \A x \in S : x <= m

\* The frets of string s the player holds.
HeldFrets(s) ==
  {StrPosOf(p).fret :
     p \in {q \in DOMAIN held : StrPosOf(q) # None /\ StrPosOf(q).str_index = s}}

\* The message Fretboard.trigger builds for a pad event.
TapMsgOf(pos, velocity) ==
  LET fc == FretboardConfig(pads_config)
  IN FretMsg(StrPosOf(pos), map_channel(fc, StrPosOf(pos)), get_note(fc, StrPosOf(pos)),
             _clamp_velocity(fc, velocity))

GroupOf(pos) == fingered[StrPosOf(pos).str_index]

InGroup(pos) == get_note(FretboardConfig(pads_config), StrPosOf(pos)) \in DOMAIN GroupOf(pos).note_info

TopNote(g) == g.note_order[Len(g.note_order)]

NoteOffOf(m) == [str_pos |-> m.str_pos, channel |-> m.channel, note |-> m.note, velocity |-> 0]

\* C1: in Tap mode, after every handled pad event, a string with no fret held
\* has no note sounding, and a string with frets held has the note of its
\* highest held fret sounding and no other note.
TapHighestHeldFretSounds ==
  (config.play_mode = "Tap" /\ ~raised) =>
    \A s \in 0 .. NumStrings - 1 :
      LET fc == FretboardConfig(pads_config)
          top == StringPos(s, MaxOf(HeldFrets(s)))
      IN IF HeldFrets(s) = {} THEN strOn[s] = {}
         ELSE /\ strOn[s] \subseteq {get_note(fc, top)}
              /\ <<map_channel(fc, top), get_note(fc, top)>> \in sounding

\* C2 as stated: in Tap mode no string ever has more than one note sounding,
\* not even between two messages of one event.
TapOneNotePerStringAlways ==
  config.play_mode = "Tap" => strPeak <= 1

\* C2: in Tap mode every string has 0 or 1 notes sounding once an event is
\* handled, and at most 2 between the messages of an event (a hammer-on or a
\* pull-off sends the new note-on before the old note-off).
TapOneNotePerStringBetweenEvents ==
  config.play_mode = "Tap" =>
    /\ \A s \in DOMAIN strOn : Cardinality(strOn[s]) <= 1
    /\ strPeak <= 2

\* A hammer-on or pull-off was just sent: two notes of one string overlapped.
TapOverlapHeard ==
  /\ config.play_mode = "Tap"
  /\ ev.type = "Pad"
  /\ strPeak = 2
  /\ \A s \in DOMAIN strOn : Cardinality(strOn[s]) <= 1

\* C3: in Tap mode a note-on for a note not in its string's group makes the
\* handler emit exactly that note-on when the group is empty, and that
\* note-on followed by the note-off of the previous highest note when the
\* new note is higher than it.
TapNoteOnEmits ==
  config.play_mode = "Tap" =>
    \A pos \in PlayPads, velocity \in 1 .. MaxVel :
      LET m == TapMsgOf(pos, velocity)
          g == GroupOf(pos)
          h == ChokeNoteHandlerTrigger(fingered, m)
      IN ~InGroup(pos) =>
           /\ g.note_order = <<>> => h.msgs = <<m>>
           /\ (g.note_order # <<>> /\ m.note > TopNote(g)) =>
                h.msgs = <<m, NoteOffOf(g.note_info[TopNote(g)])>>

\* A hammer-on went out on the port: the note-on of the pressed pad, then the
\* note-off of a lower note.
TapHammerOnSent ==
  /\ config.play_mode = "Tap"
  /\ ev.type = "Pad"
  /\ ev.velocity > 0
  /\ Len(Processed(out)) = 2
  /\ Processed(out)[1].velocity = ev.velocity
  /\ Processed(out)[1].str_pos = StrPosOf(ev.pos)
  /\ Processed(out)[2].velocity = 0
  /\ Processed(out)[2].note < Processed(out)[1].note

\* C4 as stated: releasing the highest note of a group that keeps a lower
\* note emits the note-off of the released note and then the note-on of the
\* new highest note; a release that empties the group emits only the note-off.
TapPullOffEmitsOffThenOn ==
  config.play_mode = "Tap" =>
    \A pos \in PlayPads :
      LET m == TapMsgOf(pos, 0)
          g == GroupOf(pos)
          h == ChokeNoteHandlerTrigger(fingered, m)
      IN (InGroup(pos) /\ m.note = TopNote(g)) =>
           IF Len(g.note_order) = 1 THEN h.msgs = <<NoteOffOf(m)>>
           ELSE h.msgs = <<NoteOffOf(m), g.note_info[g.note_order[Len(g.note_order) - 1]]>>

\* C4: releasing the highest note of a group that keeps a lower note emits
\* the note-on of the new highest note first, as the group stored it (with the
\* velocity of the press that put it there), and then the note-off of the
\* released note; a release that empties the group emits only the note-off.
TapPullOffEmitsOnThenOff ==
  config.play_mode = "Tap" =>
    \A pos \in PlayPads :
      LET m == TapMsgOf(pos, 0)
          g == GroupOf(pos)
          h == ChokeNoteHandlerTrigger(fingered, m)
      IN (InGroup(pos) /\ m.note = TopNote(g)) =>
           IF Len(g.note_order) = 1 THEN h.msgs = <<NoteOffOf(g.note_info[m.note])>>
           ELSE h.msgs = <<g.note_info[g.note_order[Len(g.note_order) - 1]],
                           NoteOffOf(g.note_info[m.note])>>

\* A pull-off went out on the port: the note-on of a lower fret the player
\* still holds, with the velocity of its press, then the note-off of the
\* released pad's note, pressed with another velocity.
TapPullOffSent ==
  /\ config.play_mode = "Tap"
  /\ ev.type = "Pad"
  /\ ev.velocity = 0
  /\ Len(Processed(out)) = 2
  /\ Processed(out)[2].velocity = 0
  /\ Processed(out)[2].str_pos = StrPosOf(ev.pos)
  /\ Processed(out)[1].velocity > 0
  /\ Processed(out)[1].note < Processed(out)[2].note
  /\ \E p \in DOMAIN held :
       /\ StrPosOf(p) = Processed(out)[1].str_pos
       /\ held[p] = Processed(out)[1].velocity
       /\ held[p] # MaxVel

\* C5: in Tap mode a note-on below the highest note of its group, a note-off
\* for a lower note of the group, and a note-off for a note not in the group
\* make the handler emit nothing and keep the group's highest message; the
\* note-off for a note not in the group leaves every group as it was.
TapSilentEvents ==
  config.play_mode = "Tap" =>
    \A pos \in PlayPads, velocity \in 0 .. MaxVel :
      LET m == TapMsgOf(pos, velocity)
          g == GroupOf(pos)
          h == ChokeNoteHandlerTrigger(fingered, m)
          g2 == h.fingered[m.str_pos.str_index]
      IN /\ (g.note_order # <<>> /\ m.note < TopNote(g) /\ (velocity > 0 \/ InGroup(pos))) =>
              (h.msgs = <<>> /\ max_msg(g2) = max_msg(g))
         /\ (velocity = 0 /\ ~InGroup(pos)) =>
              (h.msgs = <<>> /\ h.fingered = fingered)

\* A fret below the sounding one was just pressed and taken into the group
\* without a message.
TapLowerFretPressedSilently ==
  /\ config.play_mode = "Tap"
  /\ ~raised
  /\ ev.type = "Pad"
  /\ ev.velocity > 0
  /\ out = <<>>
  /\ InGroup(ev.pos)
  /\ TapMsgOf(ev.pos, 0).note < TopNote(GroupOf(ev.pos))
  /\ strOn[StrPosOf(ev.pos).str_index] = {TopNote(GroupOf(ev.pos))}

(***************************************************************************)
(* The orchestrator: resets, config changes, routing.                      *)
(***************************************************************************)
UndoPress == ButtonEvent("Undo", TRUE)

IsMenuEvent(e) == e.type \in {"Button", "Knob"} /\ (e.type = "Button" => e.button # "Undo")

IsPadMessage(m) == m.port = "push" /\ m.kind = "pad"

ProgramVars ==
  <<config, pads_config, notemap, vis, fingered, last_off, pad_vis, pad_notes, menu>>

\* The note-off of the pair is among the messages.
HasNoteOff(msgs, pair) ==
  \E i \in 1 .. Len(msgs) :
    IsNoteOff(msgs[i]) /\ msgs[i].channel = pair[1] /\ msgs[i].note = pair[2]

ConfigChangeNoteOffsFirst ==
  IsMenuEvent(ev) =>
    \A i, j \in 1 .. Len(out) :
      (IsNoteOff(out[i]) /\ out[j].port = "push") => i < j

\* C8: a config change that changes the fretboard's config emits as many
\* note-offs as the tracker held (channel, note) pairs, one for each pair,
\* reports Off every position that was not Off, and leaves the tracker and
\* the choke and mono handler state empty.
ConfigChangeCleansFretboard ==
  [][(IsMenuEvent(ev') /\ FretboardConfig(pads_config') # FretboardConfig(pads_config)) =>
       /\ Len(NoteOffs(out')) = Cardinality(NotePairs(notemap))
       /\ \A pair \in NotePairs(notemap) : HasNoteOff(out', pair)
       /\ \A sp \in DOMAIN vis :
            LET pad_pos == pad_pos_from_str_pos(ViewportConfig(pads_config), sp)
            IN pad_pos # None =>
                 \E i \in 1 .. Len(out') :
                   out'[i] = PadColorMessage(pad_pos, get_color(pad_pos \in pad_notes, "Off"))
       /\ notemap' = <<>>
       /\ vis' = <<>>
       /\ pad_vis' = <<>>
       /\ fingered' = EmptyFingered
       /\ last_off' = None]_vars

\* A turn of the MinVel knob has just silenced two notes.
KnobSilencedTwoNotes ==
  /\ ev.type = "Knob"
  /\ Len(NoteOffs(out)) = 2
  /\ notemap = <<>>
  /\ DOMAIN held # {}

\* C9: a reset right after a reset emits no note-off and leaves the
\* fretboard, the pads and the menu as the first reset left them.
ResetIdempotent ==
  [][(ev = UndoPress /\ ev' = UndoPress) =>
       /\ NoteOffs(out') = <<>>
       /\ UNCHANGED ProgramVars]_vars

\* Two resets in a row while the player holds a pad: the second had no note
\* to silence.
ResetTwice ==
  /\ ev = UndoPress
  /\ undos = 2
  /\ DOMAIN held # {}
  /\ NoteOffs(out) = <<>>

PressSounds(sp) ==
  /\ IsEnabled(get_vis(vis, sp))
  /\ pads_config.play_mode = "Tap" => fingered[sp.str_index].note_order = <<>>

\* C11: on every handled pad event under the floor m = min_velocity, no note-on
\* is sent below the floor; every note-on sent for the position of a press with
\* velocity v carries max(v, m), and a press that sounds at once is sent so;
\* and for an event with velocity 0 every message sent for its position has
\* velocity 0.
FloorApplied ==
  [][ev'.type = "Pad" /\ StrPosOf(ev'.pos) # None =>
       LET sp == StrPosOf(ev'.pos)
           m == pads_config.min_velocity
           pm == Processed(out')
       IN /\ \A i \in 1 .. Len(pm) :
                pm[i].velocity > 0 =>
                  /\ pm[i].velocity >= m
                  /\ pm[i].str_pos = sp => pm[i].velocity = Max(ev'.velocity, m)
          /\ ev'.velocity > 0 /\ PressSounds(sp) /\ ~raised' =>
                \E i \in 1 .. Len(pm) :
                  pm[i].str_pos = sp /\ pm[i].velocity = Max(ev'.velocity, m)
          /\ ev'.velocity = 0 =>
                \A i \in 1 .. Len(pm) : pm[i].str_pos = sp => pm[i].velocity = 0]_vars

\* A press below the floor was sent with the floor's velocity.
FloorRaisedPress ==
  /\ ev.type = "Pad"
  /\ ev.velocity > 0
  /\ ev.velocity < pads_config.min_velocity
  /\ \E i \in 1 .. Len(out) :
       IsProcessed(out[i]) /\ out[i].velocity = pads_config.min_velocity


(***************************************************************************)
(* The default mapping of the grid                                         *)
(***************************************************************************)
\* The program with the default config, and any pad of the 8x8 grid pressed
\* or released, at most MaxGridHeld down at once: the first with any velocity,
\* a further one at full velocity.
InitGrid == InitWith(init_config(0))

GridPress ==
  /\ Cardinality(DOMAIN held) < MaxGridHeld
  /\ \E pos \in AllPos \ DOMAIN held,
        velocity \in IF held = <<>> THEN 1 .. MaxVel ELSE {MaxVel} :
       HandlePadEvent(pos, velocity)

NextGrid == GridPress \/ PadRelease

SpecGrid == InitGrid /\ [][NextGrid]_vars

ShadowFrame == UNCHANGED <<PluckedVars, CallVars, MainVars>>

DiffCells(diff) == Len(diff.lcd) + Len(diff.pads) + Len(diff.buttons)

\* PushShadow.context up to the yield: a new diff buffer.
ContextEnter ==
  /\ ~raised /\ diff_state = None
  /\ diff_state' = PushStateDiff
  /\ sent' = <<>>
  /\ UNCHANGED <<shadow_state, raised>>
  /\ ShadowFrame

\* A call of the managed interface inside the scope.
ManagedCall(diff) ==
  /\ ~raised /\ diff_state # None
  /\ DiffCells(diff_state) < MaxScopeCells
  /\ diff_state' = diff
  /\ sent' = <<>>
  /\ UNCHANGED <<shadow_state, raised>>
  /\ ShadowFrame

WritePad == \E pos \in ShadowPads, color \in ShadowColors \cup {None} :
  ManagedCall(managed_pad(diff_state, pos, color))

WriteButton == \E button \in ShadowButtons, illum \in ShadowIllums \cup {None} :
  ManagedCall(managed_button(diff_state, button, illum))

WriteLcd == \E row \in 0 .. NumLcdRows - 1, text \in ShadowTexts :
  \E line_col \in 0 .. LineLen - Len(text) :
    ManagedCall(managed_lcd_display_raw(diff_state, row, line_col, text))

\* PushShadow.context after the yield: _emit(diff_state).
ContextExit ==
  /\ ~raised /\ diff_state # None
  /\ \E r \in {_emit(shadow_state, diff_state)} :
       /\ shadow_state' = r.state
       /\ sent' = r.sent
       /\ raised' = r.raised
  /\ diff_state' = None
  /\ ShadowFrame

InitShadow == InitWith(init_config(0))

NextShadow == ContextEnter \/ WritePad \/ WriteButton \/ WriteLcd \/ ContextExit

SpecShadow == InitShadow /\ [][NextShadow]_vars

\* The messages of a scope exit that are about one cell.
SentForPad(msgs, pos) ==
  SelectSeq(msgs, LAMBDA m : m.kind \in {"pad_led_off", "pad_set_color"} /\ m.pos = pos)

SentForButton(msgs, button) ==
  SelectSeq(msgs, LAMBDA m : m.kind \in {"button_off", "button_set_illum"} /\ m.button = button)

SentForRow(msgs, row) ==
  SelectSeq(msgs, LAMBDA m : m.kind = "lcd_display_raw" /\ m.row = row)

\* A cell of a dict of the stored state holds the value v.
Stored(dict, k, v) == k \in DOMAIN dict /\ dict[k] = v

\* C13: nothing is sent while a scope is open; a scope exit raises no error,
\* sends exactly one message for each written pad, button and LCD row whose
\* written value differs from the stored one and none for the others, and
\* leaves every written cell stored with its written value.
ShadowSendsDeltasOnly ==
  [][/\ diff_state' # None => sent' = <<>>
     /\ (diff_state # None /\ diff_state' = None) =>
          /\ ~raised'
          /\ \A i \in 1 .. Len(diff_state.pads) :
               LET it == diff_state.pads[i]
               IN /\ Len(SentForPad(sent', it.key)) =
                       IF Stored(shadow_state.pads, it.key, it.val) THEN 0 ELSE 1
                  /\ Stored(shadow_state'.pads, it.key, it.val)
          /\ \A i \in 1 .. Len(diff_state.buttons) :
               LET it == diff_state.buttons[i]
               IN /\ Len(SentForButton(sent', it.key)) =
                       IF Stored(shadow_state.buttons, it.key, it.val) THEN 0 ELSE 1
                  /\ Stored(shadow_state'.buttons, it.key, it.val)
          /\ \A i \in 1 .. Len(diff_state.lcd) :
               LET it == diff_state.lcd[i]
               IN /\ Len(SentForRow(sent', it.key)) =
                       IF Stored(shadow_state.lcd, it.key, it.val) THEN 0 ELSE 1
                  /\ Stored(shadow_state'.lcd, it.key, it.val)]_vars

\* C14: a pad or button stored with a color or an illumination and written
\* as off gets exactly one LED-off at the scope's exit and is stored as None
\* afterwards, and no scope exit raises an error.
ShadowOffStoresNone ==
  [][(diff_state # None /\ diff_state' = None) =>
       /\ ~raised'
       /\ \A i \in 1 .. Len(diff_state.pads) :
            LET it == diff_state.pads[i]
            IN (/\ it.val = None
                /\ it.key \in DOMAIN shadow_state.pads
                /\ shadow_state.pads[it.key] # None)
               => /\ SentForPad(sent', it.key) = <<[kind |-> "pad_led_off", pos |-> it.key]>>
                  /\ Stored(shadow_state'.pads, it.key, None)
       /\ \A i \in 1 .. Len(diff_state.buttons) :
            LET it == diff_state.buttons[i]
            IN (/\ it.val = None
                /\ it.key \in DOMAIN shadow_state.buttons
                /\ shadow_state.buttons[it.key] # None)
               => /\ SentForButton(sent', it.key) =
                       <<[kind |-> "button_off", button |-> it.key]>>
                  /\ Stored(shadow_state'.buttons, it.key, None)]_vars

(***************************************************************************)
(* Decoding the controller's messages                                      *)
(***************************************************************************)
\* The second data bytes the decoder is given: the ends of the range, and the
\* values around the middle.
DataValues == {0, 1, 63, 64, 65, MaxData - 1, MaxData}

\* The messages: note-on, note-off and control-change with any first data
\* byte, and one kind that carries neither a note nor a controller.
MidiMessages ==
  {[type |-> t, note |-> n, velocity |-> v] :
     t \in {"note_on", "note_off"}, n \in 0 .. MaxData, v \in DataValues}
  \cup {[type |-> "control_change", control |-> c, value |-> v] :
          c \in 0 .. MaxData, v \in DataValues}
  \cup {[type |-> "pitchwheel"]}

\* A call of a pure function, once: only the record of the call and its
\* result change.
Called(fn, arg, result) ==
  /\ call.fn = "none"
  /\ call' = [fn |-> fn, arg |-> arg]
  /\ ret' = result
  /\ UNCHANGED <<PluckedVars, raised, ShadowVars, MainVars>>

CallMatchEvent == \E msg \in MidiMessages : Called("match_event", msg, match_event(msg))

CallChanSel == \E control \in 0 .. MaxData :
  Called("ChanSelPos.from_input_control", control, chan_sel_from_input_control(control))

CallGridSel == \E control \in 0 .. MaxData :
  Called("GridSelPos.from_input_control", control, grid_sel_from_input_control(control))

InitDecode == InitWith(init_config(0))

NextDecode == CallMatchEvent \/ CallChanSel \/ CallGridSel

SpecDecode == InitDecode /\ [][NextDecode]_vars

\* The class a message belongs to, read off its numbers.
IsCC(msg) == msg.type = "control_change"

\* C15: match_event returns the event of the first class, in the order Knob,
\* Button, Pad, TimeDiv, GridSel, ChanSel, whose match accepts the message,
\* and None when no class accepts it; nothing else changes.
MatchEventFirstClass ==
  [][call'.fn = "match_event" =>
       LET msg == call'.arg
           order == <<"Knob", "Button", "Pad", "TimeDiv", "GridSel", "ChanSel">>
           result == [Knob |-> KnobEventMatch(msg), Button |-> ButtonEventMatch(msg),
                      Pad |-> PadEventMatch(msg), TimeDiv |-> TimeDivEventMatch(msg),
                      GridSel |-> GridSelEventMatch(msg), ChanSel |-> ChanSelEventMatch(msg)]
       IN /\ ret' = None <=> \A i \in 1 .. Len(order) : result[order[i]] = None
          /\ ret' # None =>
               \E i \in 1 .. Len(order) :
                 /\ ret' = result[order[i]]
                 /\ ret'.type = order[i]
                 /\ \A j \in 1 .. i - 1 : result[order[j]] = None
          /\ UNCHANGED <<PluckedVars, raised, ShadowVars>>]_vars

\* Controller 110 is the Device button and also in reach of the grid
\* selectors' decoder: the button was returned.
DeviceButtonDecoded ==
  /\ call.fn = "match_event"
  /\ IsCC(call.arg) /\ call.arg.control = ButtonCC.Device
  /\ GridSelEventMatch(call.arg) # None
  /\ ret = ButtonEvent("Device", call.arg.value > 0)

\* C16: a control-change of a knob decodes to a KnobEvent that is clockwise
\* exactly when the value is below 64.
KnobClockwiseBelow64 ==
  (call.fn = "match_event" /\ IsCC(call.arg)
     /\ \E k \in DOMAIN KnobCC : KnobCC[k] = call.arg.control)
  => /\ ret # None /\ ret.type = "Knob"
     /\ ret.clockwise <=> call.arg.value < 64

\* C17: a note_off of a pad decodes to a PadEvent with velocity 0, whatever
\* velocity it carries, and a note_on with velocity 0 likewise.
NoteOffDecodesAsRelease ==
  (call.fn = "match_event" /\ is_note_msg(call.arg)
     /\ call.arg.note >= 36 /\ call.arg.note < 100
     /\ (call.arg.type = "note_off" \/ call.arg.velocity = 0))
  => ret # None /\ ret.type = "Pad" /\ ret.velocity = 0

\* C18: ChanSelPos.from_input_control returns a position exactly for the
\* controls 20..27, GridSelPos.from_input_control exactly for 102..109, with
\* col = control - base in 0..7 and to_control its inverse.
SelectorsDecodeEightControls ==
  /\ call.fn = "ChanSelPos.from_input_control" =>
       /\ ret # None <=> call.arg \in 20 .. 27
       /\ ret # None => /\ ret.col = call.arg - 20
                         /\ ret.col \in 0 .. 7
                         /\ chan_sel_to_control(ret) = call.arg
  /\ call.fn = "GridSelPos.from_input_control" =>
       /\ ret # None <=> call.arg \in 102 .. 109
       /\ ret # None => /\ ret.col = call.arg - 102
                         /\ ret.col \in 0 .. 7
                         /\ grid_sel_to_control(ret) = call.arg

(***************************************************************************)
(* The viewport's two mappings (viewport.py)                               *)
(***************************************************************************)
\* The pads asked about: the rows of the grid, the columns of the grid and
\* ViewMargin beyond; the string positions: the strings of the tuning and the
\* frets of a row, and ViewMargin beyond.
ViewPads ==
  {Pos(r, c) : r \in 0 .. NUM_PAD_ROWS - 1,
               c \in 0 - ViewMargin .. NUM_PAD_COLS - 1 + ViewMargin}

ViewStrPos ==
  {StringPos(si, f) : si \in 0 - ViewMargin .. NumStrings - 1 + ViewMargin,
                      f \in 0 - ViewMargin .. NUM_PAD_COLS - 1 + ViewMargin}

CallStrPosFromPadPos == \E pos \in ViewPads :
  Called("str_pos_from_pad_pos", pos, viewport_str_pos_from_pad_pos(pos))

CallPadPosFromStrPos == \E str_pos \in ViewStrPos :
  Called("pad_pos_from_str_pos", str_pos, viewport_pad_pos_from_str_pos(str_pos))

InitViewport == InitWith(init_config(0))

NextViewport == CallStrPosFromPadPos \/ CallPadPosFromStrPos

SpecViewport == InitViewport /\ [][NextViewport]_vars

\* C19: a pad that str_pos_from_pad_pos maps to a string position is what
\* pad_pos_from_str_pos maps that string position to, and a string position
\* that pad_pos_from_str_pos maps to a pad is what str_pos_from_pad_pos maps
\* that pad to.
ViewportRoundTrip ==
  /\ (call.fn = "str_pos_from_pad_pos" /\ ret # None)
       => viewport_pad_pos_from_str_pos(ret) = call.arg
  /\ (call.fn = "pad_pos_from_str_pos" /\ ret # None)
       => viewport_str_pos_from_pad_pos(ret) = call.arg

\* C20: str_pos_from_pad_pos returns None for a pad whose string index,
\* row - 1, is outside 0 .. num_strings - 1, and pad_pos_from_str_pos returns
\* None for a string position whose string index is outside that range or
\* whose pad, (str_index + 1, fret), is outside the 8x8 grid.
ViewportOutOfRangeNone ==
  /\ (call.fn = "str_pos_from_pad_pos"
        /\ call.arg.row - 1 \notin 0 .. NumStrings - 1) => ret = None
  /\ (call.fn = "pad_pos_from_str_pos"
        /\ (\/ call.arg.str_index \notin 0 .. NumStrings - 1
            \/ Pos(call.arg.str_index + 1, call.arg.fret) \notin AllPos)) => ret = None

(***************************************************************************)
(* The viewport under a layout and offsets (viewport.py)                   *)
(***************************************************************************)
\* A Viewport object: its config (num_strings, and the orientation, here by
\* the layout's names) and its state (the offsets shift_str_offset and
\* shift_fret_offset have added up).
ViewportObjects ==
  {[num_strings |-> NumStrings, layout |-> l, str_offset |-> so, fret_offset |-> fo] :
     l \in Layouts, so \in 0 - ViewShift .. ViewShift, fo \in 0 - ViewShift .. ViewShift}

\* The four assertions at the head of Viewport.str_pos_from_pad_pos.
ViewportAsserts(v) ==
  /\ v.num_strings = 6
  /\ v.layout = "Horiz"
  /\ v.str_offset = 0
  /\ v.fret_offset = 0

\* Viewport.str_pos_from_pad_pos on a Viewport object: what a call can end
\* with.  A failing assertion raises, or, in a run that strips assertions,
\* is passed over.
ViewportStrPosOutcomes(v, pos) ==
  IF ViewportAsserts(v) THEN {viewport_str_pos_from_pad_pos(pos)}
  ELSE {Raise, viewport_str_pos_from_pad_pos(pos)}

CallViewportStrPos == \E v \in ViewportObjects, pos \in AllPos :
  \E result \in ViewportStrPosOutcomes(v, pos) :
    Called("Viewport.str_pos_from_pad_pos", [viewport |-> v, pos |-> pos], result)

InitViewportLayout == InitWith(init_config(0))

NextViewportLayout == CallViewportStrPos

SpecViewportLayout == InitViewportLayout /\ [][NextViewportLayout]_vars

\* C21: for a 6-string viewport and every pad (row, col), with
\* total_str_offset = str_offset - 1: in horizontal layout the pad maps to
\* string row + total_str_offset and fret col + fret_offset, in vertical
\* layout to string col + total_str_offset and fret (7 - row) + fret_offset,
\* and to none when the string is not one of the six.
ViewportLayoutFormula ==
  call.fn = "Viewport.str_pos_from_pad_pos" =>
    LET v == call.arg.viewport
        pos == call.arg.pos
        total == v.str_offset - 1
        si == IF v.layout = "Horiz" THEN pos.row + total ELSE pos.col + total
        fr == IF v.layout = "Horiz" THEN pos.col + v.fret_offset
                                    ELSE (7 - pos.row) + v.fret_offset
    IN ret = IF si >= 0 /\ si < 6 THEN StringPos(si, fr) ELSE None

(***************************************************************************)
(* Pad positions, indices and notes (pos.py)                               *)
(***************************************************************************)
CallToNote == \E pos \in AllPos :
  Called("Pos.to_note", pos, [index |-> to_index(pos), note |-> to_note(pos)])

CallFromInputNote == \E note \in 0 .. MaxData :
  Called("Pos.from_input_note", note, from_input_note(note))

InitPos == InitWith(init_config(0))

NextPos == CallToNote \/ CallFromInputNote

SpecPos == InitPos /\ [][NextPos]_vars

\* C22: to_index takes the 64 pads one-to-one onto 0..63 and to_note onto
\* 36..99; from_input_note(to_note(p)) = p for every pad p;
\* to_note(from_input_note(n)) = n for every n in 36..99; and from_input_note
\* is None for every other n.
PosNoteBijection ==
  /\ Cardinality(AllPos) = 64
  /\ call.fn = "Pos.to_note" =>
       /\ ret.index \in 0 .. 63
       /\ ret.note \in 36 .. 99
       /\ \A q \in AllPos : (to_index(q) = ret.index \/ to_note(q) = ret.note) => q = call.arg
       /\ from_input_note(ret.note) = call.arg
  /\ call.fn = "Pos.from_input_note" =>
       IF call.arg \in 36 .. 99
       THEN ret \in AllPos /\ to_note(ret) = call.arg
       ELSE ret = None

\* The highest note of the grid was decoded to the pad of the top right
\* corner.
TopRightPadDecoded ==
  /\ call.fn = "Pos.from_input_note"
  /\ call.arg = 99
  /\ ret = Pos(7, 7)

(***************************************************************************)
(* The menu on its own (menu.py)                                           *)
(***************************************************************************)
\* Menu.handle_event called with an event: the menu's state after, and the
\* Config it returns (None when it was not updated).
MenuHandles(e) ==
  \E r \in {MenuHandleEvent(menu, e)} :
    /\ ~raised
    /\ ev' = e
    /\ menu' = r.menu
    /\ raised' = r.raised
    /\ ret' = IF r.updated THEN Some(r.menu.config) ELSE None
    /\ UNCHANGED <<config, initial, pads_config, notemap, vis, fingered, last_off, pad_vis,
                   pad_notes, held, out, sounding, strOn, strPeak, undos, ShadowVars, call,
                   MainVars>>

\* A menu constructed with either layout.
InitMenu == \E l \in Layouts : InitWith([init_config(0) EXCEPT !.layout = l])

\* The page buttons and two buttons the menu has no use for, pressed and
\* released.
MenuPageButton ==
  \E b \in {"Device", "Scales", "Browse", "Undo", "Stop"}, pressed \in BOOLEAN :
    MenuHandles(ButtonEvent(b, pressed))

\* Left and Right, the fret offset kept within 0 .. MaxShift.
MenuFretButton ==
  \E b \in {"Left", "Right"} :
    /\ MenuHandleEvent(menu, ButtonEvent(b, TRUE)).menu.config.fret_offset \in 0 .. MaxShift
    /\ MenuHandles(ButtonEvent(b, TRUE))

\* A tick of a knob: the MinVel knob (the floor kept within 0 .. MaxMinVel),
\* the Layout knob, a center knob without a control, a left and a right knob.
MenuKnobTick ==
  \E k \in {<<"Center", 0>>, <<"Center", 1>>, <<"Center", 7>>, <<"Left", 0>>, <<"Left", 1>>,
             <<"Right", 0>>}, cw \in BOOLEAN :
    /\ MenuHandleEvent(menu, KnobEvent(k[1], k[2], cw)).menu.config.min_velocity <= MaxMinVel
    /\ MenuHandles(KnobEvent(k[1], k[2], cw))

NextMenuKnob == MenuPageButton \/ MenuFretButton \/ MenuKnobTick

SpecMenuKnob == InitMenu /\ [][NextMenuKnob]_vars

\* The Layout knob is the second control of the Device page.
LayoutKnob == 1

\* C23: on the Device page the fourth clockwise tick of the Layout knob in a
\* row, with layout Horiz, returns a Config with layout Vert, the fourth
\* counter-clockwise tick from Vert one with Horiz; a tick past either end
\* raises no error and leaves the Config as it is.
LayoutKnobTurns ==
  [][(/\ ev'.type = "Knob" /\ ev'.group = "Center" /\ ev'.offset = LayoutKnob
      /\ menu.cur_page = "Device")
     => LET ks == menu.knob_states[LayoutKnob + 1]
            into == IF ev'.clockwise THEN "Vert" ELSE "Horiz"
            fourth == ks.accum = (IF ev'.clockwise THEN low_sens - 1 ELSE 1 - low_sens)
        IN /\ ~raised'
           /\ (fourth /\ menu.config.layout # into) =>
                /\ menu'.config = [menu.config EXCEPT !.layout = into]
                /\ ret' = Some(menu'.config)
           /\ menu.config.layout = into => menu'.config = menu.config /\ ret' = None]_vars

\* C25: the page changes only on a press of Device, Scales or Browse, and
\* such a press makes it that page from any page; a tick of a knob of the
\* left or right group, or of any knob while the page is Scales or Browse,
\* leaves the Config and every knob state as they are and returns nothing.
PagesAndKnobs ==
  [][ev'.type \in {"Button", "Knob"} =>
       /\ menu'.cur_page # menu.cur_page =>
            /\ ev'.type = "Button" /\ ev'.pressed
            /\ ev'.button \in {"Device", "Scales", "Browse"}
       /\ (ev'.type = "Button" /\ ev'.pressed /\ ev'.button \in {"Device", "Scales", "Browse"})
            => menu'.cur_page = ev'.button
       /\ (ev'.type = "Knob" /\ (ev'.group # "Center" \/ menu.cur_page # "Device"))
            => menu' = menu /\ ret' = None /\ ~raised']_vars

\* The MinVel knob was turned on the Scales page, after the floor had been
\* raised on the Device page, and nothing came of it.
KnobIgnoredOnScalesPage ==
  /\ ev = KnobEvent("Center", 0, TRUE)
  /\ menu.cur_page = "Scales"
  /\ menu.config.min_velocity = 1
  /\ ret = None

\* The six buttons that shift the offsets, pressed and released, from the
\* default Config.
ShiftButtons == {"Left", "Right", "OctaveDown", "OctaveUp", "Up", "Down"}

MenuShiftButton ==
  \E b \in ShiftButtons, pressed \in BOOLEAN : MenuHandles(ButtonEvent(b, pressed))

InitMenuShift == InitWith(init_config(0))

SpecMenuShift == InitMenuShift /\ [][MenuShiftButton]_vars

\* What the claim has a press of the button add to the Config.
ShiftedBy(cfg, b) ==
  CASE b = "Left" -> [cfg EXCEPT !.fret_offset = @ - 1]
    [] b = "Right" -> [cfg EXCEPT !.fret_offset = @ + 1]
    [] b = "OctaveDown" -> [cfg EXCEPT !.fret_offset = @ - 12]
    [] b = "OctaveUp" -> [cfg EXCEPT !.fret_offset = @ + 12]
    [] b = "Up" -> [cfg EXCEPT !.str_offset = @ + 1]
    [] b = "Down" -> [cfg EXCEPT !.str_offset = @ - 1]

\* C24: every press of Left/Right changes fret_offset by -1/+1, of
\* OctaveDown/OctaveUp by -12/+12, of Up/Down str_offset by +1/-1, however
\* many presses came before, and returns the updated Config; a release
\* changes nothing and returns nothing.
ShiftButtonsShift ==
  [][(ev'.type = "Button" /\ ev'.button \in ShiftButtons) =>
       IF ev'.pressed
       THEN /\ ~raised'
            /\ menu'.config = ShiftedBy(menu.config, ev'.button)
            /\ ret' = Some(menu'.config)
       ELSE menu' = menu /\ ret' = None /\ ~raised']_vars

(***************************************************************************)
(* Poly and Mono                                                           *)
(***************************************************************************)
\* C26: in Poly mode every handled pad event at a string position puts on
\* the processed port exactly one message, the event's own: the position's
\* channel and note, the clamped velocity (0 for a release).
PolyPassesThrough ==
  [][(ev'.type = "Pad" /\ pads_config.play_mode = "Poly" /\ StrPosOf(ev'.pos) # None) =>
       LET sp == StrPosOf(ev'.pos)
           fc == FretboardConfig(pads_config)
           pm == Processed(out')
       IN /\ ~raised'
          /\ Len(pm) = 1
          /\ pm[1].channel = map_channel(fc, sp)
          /\ pm[1].note = get_note(fc, sp)
          /\ pm[1].velocity = _clamp_velocity(fc, ev'.velocity)]_vars

\* C27: in Mono mode a press that emits anything emits its note-on, preceded
\* by the note-off of the note sounding before (if one was) and by nothing
\* else; after each handled event at most one note sounds on the processed
\* port; and a release emits something only when its position is that of the
\* most recently triggered note, then exactly that note's note-off.
MonoLegato ==
  [][(ev'.type = "Pad" /\ pads_config.play_mode = "Mono" /\ StrPosOf(ev'.pos) # None) =>
       LET sp == StrPosOf(ev'.pos)
           fc == FretboardConfig(pads_config)
           pm == Processed(out')
           on == FretMsg(sp, map_channel(fc, sp), get_note(fc, sp),
                         _clamp_velocity(fc, ev'.velocity))
           Same(m, f) == /\ m.str_pos = f.str_pos /\ m.channel = f.channel
                         /\ m.note = f.note /\ m.velocity = f.velocity
       IN /\ ~raised'
          /\ Cardinality(sounding') <= 1
          /\ (ev'.velocity > 0 /\ pm # <<>>) =>
               IF sounding = {}
               THEN Len(pm) = 1 /\ Same(pm[1], on)
               ELSE /\ Len(pm) = 2
                    /\ pm[1].velocity = 0 /\ <<pm[1].channel, pm[1].note>> \in sounding
                    /\ Same(pm[2], on)
          /\ (ev'.velocity = 0 /\ pm # <<>>) =>
               /\ last_off # None
               /\ last_off.str_pos = sp
               /\ Len(pm) = 1 /\ Same(pm[1], last_off)
               /\ sounding' = {}
          /\ (ev'.velocity = 0 /\ (last_off = None \/ last_off.str_pos # sp)) =>
               pm = <<>> /\ sounding' = sounding]_vars

\* In Mono mode a second pad was pressed while the first was held: the
\* first note's note-off and then the second note's note-on were sent.
MonoLegatoPlayed ==
  /\ pads_config.play_mode = "Mono"
  /\ ev.type = "Pad" /\ ev.velocity > 0
  /\ Cardinality(DOMAIN held) = 2
  /\ Len(Processed(out)) = 2
  /\ Processed(out)[1].velocity = 0
  /\ Processed(out)[2].velocity > 0
  /\ Cardinality(sounding) = 1

(***************************************************************************)
(* The main loop (main.py, midi.py): the port's callback thread puts the   *)
(* controller's messages into a queue; main_with_ports takes them out one  *)
(* at a time and hands each to the controller.                             *)
(***************************************************************************)
\* The messages of the play area's pads: note-on with a velocity, or with 0.
InputMessages ==
  {[type |-> "note_on", note |-> to_note(pos), velocity |-> v] :
     pos \in PlayPads, v \in {0, MaxVel}}

\* SimpleQueue.put_nowait, the callback of the input port
SimpleQueuePut(q, m) == Append(q, m)

\* (a queue that hands out its newest message)
SimpleQueueGetLast(q) == [msg |-> q[Len(q)], queue |-> SubSeq(q, 1, Len(q) - 1)]

\* SimpleQueue.get in MidiInput.recv_msg, the queue not empty
SimpleQueueGet(q) == [msg |-> Head(q), queue |-> Tail(q)]

\* The callback thread, at any moment while the port is open.
Callback ==
  \E m \in InputMessages :
    /\ pc # "exited"
    /\ Len(produced) < MaxMsgs
    /\ queue' = SimpleQueuePut(queue, m)
    /\ produced' = Append(produced, m)
    /\ UNCHANGED <<PluckedVars, raised, ShadowVars, CallVars, loop_msg, handled, pc,
                   PortVars>>

\* msg = ports.midi_in.recv_msg(): blocks while the queue is empty.
RecvMsg ==
  /\ pc = "recv" /\ ~raised
  /\ queue # <<>>
  /\ \E g \in {SimpleQueueGet(queue)} :
       /\ loop_msg' = g.msg
       /\ queue' = g.queue
  /\ pc' = "send"
  /\ UNCHANGED <<PluckedVars, raised, ShadowVars, CallVars, produced, handled, PortVars>>

\* controller.send_msg(msg): the message's event is handled.
SendMsg ==
  /\ pc = "send"
  /\ \E e \in {match_event(loop_msg)} :
       /\ e.type = "Pad"
       /\ PadEventHandled(e.pos, e.velocity)
  /\ handled' = Append(handled, loop_msg)
  /\ loop_msg' = None
  /\ pc' = "recv"
  /\ UNCHANGED <<queue, produced, PortVars>>

\* PushOutput.reset: the display, then the pads and the other controls.
PushOutputReset ==
  [i \in 1 .. 6 |->
     [port |-> "push",
      kind |-> <<"lcd_reset", "pad_reset", "grid_sel_reset", "chan_sel_reset",
                 "button_reset", "time_div_reset">>[i]]]

\* A KeyboardInterrupt in the loop, in recv_msg or on the way to send_msg:
\* the finally clause of main_with_ports runs and the program ends.
Interrupt ==
  /\ pc \in {"recv", "send"} /\ ~raised
  /\ ev' = [type |-> "Interrupt"]
  /\ out' = PushOutputReset
  /\ Hear(FretboardConfig(pads_config), PushOutputReset)
  /\ pc' = "exited"
  /\ UNCHANGED <<config, initial, pads_config, notemap, vis, fingered, last_off, pad_vis,
                 pad_notes, menu, held, undos, raised, ShadowVars, CallVars,
                 queue, produced, loop_msg, handled, PortVars>>

InitMain == InitWith(init_config(0))

NextMain == Callback \/ RecvMsg \/ SendMsg \/ Interrupt

SpecMain == InitMain /\ [][NextMain]_vars

\* The message the loop has taken and not yet handled.
InFlight == IF loop_msg = None THEN <<>> ELSE <<loop_msg>>

\* C28: under every interleaving of the callback and the loop, the messages
\* handled, the one in the loop's hand and those waiting in the queue are,
\* in this order, exactly the messages the callback has put, each once; and
\* each step that handles a message handles the next one in that order, as
\* the event it decodes to.
MainLoopFifo ==
  [][/\ handled' \o InFlight' \o queue' = produced'
     /\ handled' # handled =>
          /\ handled' = SubSeq(produced, 1, Len(handled) + 1)
          /\ ev' = match_event(produced[Len(handled) + 1])]_vars

\* Two messages were handled while a third, put in the meantime, waited.
MainLoopInterleaved ==
  /\ Len(handled) = 2
  /\ handled[1] # handled[2]
  /\ Len(queue) = 1
  /\ pc = "recv"
  /\ ev = match_event(handled[2])

\* C29: once the interrupted program has ended, no note sounds on the
\* processed port, and the display reset and the pad reset were sent to the
\* controller.
InterruptSilencesAndResets ==
  pc = "exited" =>
    /\ sounding = {}
    /\ \E i \in 1 .. Len(out) : out[i] = [port |-> "push", kind |-> "lcd_reset"]
    /\ \E i \in 1 .. Len(out) : out[i] = [port |-> "push", kind |-> "pad_reset"]

(***************************************************************************)
(* Tap mode: a fret pressed again while held                               *)
(***************************************************************************)
\* C30: in Tap mode a note-on at an enabled position whose note its string's
\* group already holds stores the new message for that note, emits nothing
\* on the processed port and leaves what sounds there sounding.
TapRepressSilent ==
  [][(/\ ev'.type = "Pad" /\ ev'.velocity > 0
      /\ pads_config.play_mode = "Tap"
      /\ StrPosOf(ev'.pos) # None
      /\ IsEnabled(get_vis(vis, StrPosOf(ev'.pos)))
      /\ get_note(FretboardConfig(pads_config), StrPosOf(ev'.pos))
            \in DOMAIN fingered[StrPosOf(ev'.pos).str_index].note_info)
     => LET sp == StrPosOf(ev'.pos)
            fc == FretboardConfig(pads_config)
            n == get_note(fc, sp)
        IN /\ ~raised'
           /\ fingered'[sp.str_index].note_order = fingered[sp.str_index].note_order
           /\ fingered'[sp.str_index].note_info[n].velocity = _clamp_velocity(fc, ev'.velocity)
           /\ Processed(out') = <<>>
           /\ sounding' = sounding]_vars

(***************************************************************************)
(* The tracker and the port                                                *)
(***************************************************************************)
\* C31: after every handled event (pad events, resets, config changes), the
\* (channel, note) pairs of the tracker's note map are exactly those whose
\* last message on the processed port was a note-on with velocity > 0.
TrackerMatchesPort ==
  ~raised => NotePairs(notemap) = sounding

\* Two notes sound, both in the tracker, after a pad event.
TrackerHoldsTwoNotes ==
  /\ ~raised
  /\ ev.type = "Pad"
  /\ Cardinality(sounding) = 2
  /\ NotePairs(notemap) = sounding

\* The message is for the position: emitted for it, or, a note-off of a
\* clean-up, for its channel and note.
ForPos(fc, m, sp) ==
  IF "str_pos" \in DOMAIN m THEN m.str_pos = sp
  ELSE m.channel = map_channel(fc, sp) /\ m.note = get_note(fc, sp)

\* The positions shown as sounding.
PrimaryPositions(v) == {sp \in DOMAIN v : v[sp] = "OnPrimary"}

\* C32: a position is OnPrimary only if the last message emitted for it was
\* a note-on with velocity > 0 of its note.  Step by step: a position that
\* is OnPrimary after a handled event has, as the last message this event
\* emitted for it, such a note-on; or the event emitted nothing for it and
\* it was OnPrimary before.
PrimaryOnlyAfterNoteOn ==
  [][~raised' =>
       \A sp \in PrimaryPositions(vis') :
         LET fc == FretboardConfig(pads_config')
             ms == SelectSeq(Processed(out'), LAMBDA m : ForPos(fc, m, sp))
         IN IF ms # <<>>
            THEN /\ ms[Len(ms)].velocity > 0
                 /\ ms[Len(ms)].note = get_note(fc, sp)
            ELSE sp \in PrimaryPositions(vis)]_vars

\* Two positions are shown as sounding: one from the press just handled,
\* one from a press before it.
TwoPrimaryPositions ==
  /\ ~raised
  /\ ev.type = "Pad" /\ ev.velocity > 0
  /\ Cardinality(PrimaryPositions(vis)) = 2
  /\ Len(NoteOns(out)) = 1

(***************************************************************************)
(* ChokeGroup on its own                                                   *)
(***************************************************************************)
\* ChokeGroup.trigger called on a string's group with any note-on or
\* note-off of the string, whatever the group holds.
ChokeGroupCall ==
  \E s \in 0 .. NumChokeStrings - 1, fret \in 0 .. NumChokeFrets - 1, v \in 0 .. MaxVel :
    \E fret_msg \in {FretMsg(StringPos(s, fret), MIDI_BASE_CHANNEL,
                              STANDARD_TUNING[s + 1] + fret, v)} :
      /\ fingered' = [fingered EXCEPT ![s] = ChokeGroupTrigger(@, fret_msg)]
      /\ call' = [fn |-> "ChokeGroup.trigger", arg |-> fret_msg]
      /\ UNCHANGED <<config, initial, pads_config, notemap, vis, last_off, pad_vis, pad_notes,
                     menu, held, ev, out, sounding, strOn, strPeak, undos, raised,
                     ShadowVars, ret, MainVars>>

InitChoke == InitWith(init_config(0))

SpecChoke == InitChoke /\ [][ChokeGroupCall]_vars

\* C33: in every choke group note_order is strictly ascending and the keys
\* of note_info are exactly the notes of note_order.
ChokeGroupOrdered ==
  \A s \in DOMAIN fingered :
    LET order == fingered[s].note_order
    IN /\ \A i \in 1 .. Len(order) - 1 : order[i] < order[i + 1]
       /\ DOMAIN fingered[s].note_info = {order[i] : i \in 1 .. Len(order)}

\* A note-off took the middle note out of a group of three, and a note-on
\* for a held note was triggered on the other string.
ChokeGroupMiddleRemoved ==
  /\ call.fn = "ChokeGroup.trigger"
  /\ call.arg.velocity = 0
  /\ call.arg.str_pos = StringPos(0, 1)
  /\ Len(fingered[0].note_order) = 2
  /\ fingered[0].note_order[2] - fingered[0].note_order[1] = 2
  /\ Len(fingered[1].note_order) = 1
  /\ fingered[1].note_info[fingered[1].note_order[1]].velocity = MaxVel

(***************************************************************************)
(* The knobs over their whole ranges                                       *)
(***************************************************************************)
\* The knobs turned: MinVel (sensitivity 1, 0..127) and StrOff (sensitivity
\* 4, -11..12), as offsets of the center group.
TurnedKnobs == {0, 3}

\* A tick of one of them in either direction, on the Device page.
KnobTick ==
  \E k \in TurnedKnobs, cw \in BOOLEAN : MenuHandles(KnobEvent("Center", k, cw))

InitKnob == InitWith(init_config(0))

SpecKnob == InitKnob /\ [][KnobTick]_vars

\* C34: on every tick (diff +1 or -1) of an integer knob with sensitivity s,
\* with na = accum + diff: accum stays within -s .. s and the index within
\* the range, the value being that of the index; when |na| >= s and the range
\* has a value in that direction the index moves one step that way, accum
\* becomes na mod s and the Config with the field set to the new value is
\* returned; otherwise the index and the Config are unchanged, nothing is
\* returned, and accum is na, clamped to -s or s at the end of the range.
KnobAccumulates ==
  [][(ev'.type = "Knob" /\ ev'.group = "Center" /\ ev'.offset \in TurnedKnobs)
     => LET c == device_knob_controls[ev'.offset + 1]
            s == c.sensitivity
            lo == c.val_range.min_val
            hi == c.val_range.max_val
            before == menu.knob_states[ev'.offset + 1]
            after == menu'.knob_states[ev'.offset + 1]
            na == before.accum + (IF ev'.clockwise THEN 1 ELSE -1)
            step == IF na >= s /\ before.index < hi THEN 1
                    ELSE IF na <= -s /\ before.index > lo THEN -1
                    ELSE 0
        IN /\ ~raised'
           /\ after.accum \in -s .. s
           /\ after.index \in lo .. hi
           /\ after.val = after.index
           /\ after.index = before.index + step
           /\ IF step # 0
              THEN /\ after.accum = na % s
                   /\ menu'.config = [menu.config EXCEPT ![c.lens] = after.val]
                   /\ ret' = Some(menu'.config)
              ELSE /\ after.accum = (IF na >= s THEN s ELSE IF na <= -s THEN -s ELSE na)
                   /\ menu'.config = menu.config
                   /\ ret' = None]_vars

\* The StrOff knob was turned up to the end of its range and one tick
\* further: the accumulator is clamped at the sensitivity.  The MinVel knob
\* has moved as well.
KnobClampedAtEnd ==
  /\ ev = KnobEvent("Center", 3, TRUE)
  /\ menu.knob_states[4].index = 12
  /\ menu.knob_states[4].accum = low_sens
  /\ menu.config.str_offset = 12
  /\ menu.config.min_velocity > 0
  /\ ret = None

(***************************************************************************)
(* MidiOutput with a delay (midi.py): the rate limiter, on an integer      *)
(* clock.                                                                  *)
(***************************************************************************)
PortFrame == UNCHANGED <<PluckedVars, raised, ShadowVars, CallVars,
                         queue, produced, loop_msg, handled, pc>>

\* Time passes between two sends.
ClockTick ==
  /\ clock < MaxClock
  /\ clock' = clock + 1
  /\ UNCHANGED <<last_sent, sent_at>>
  /\ PortFrame

\* MidiOutput.send_msg with delay = Delay.  time.sleep(diff) suspends for at
\* least diff: the thread wakes at lim or up to MaxOversleep later, and the
\* message is sent then.
MidiOutputSend ==
  \E now \in {clock}, lim \in {last_sent + Delay} :
    /\ IF lim - now > 0
       THEN /\ \E wake \in lim .. lim + MaxOversleep :
                 /\ wake <= MaxClock
                 /\ clock' = wake
            /\ last_sent' = lim
       ELSE /\ last_sent' = now
            /\ clock' = clock
    /\ sent_at' = (IF sent_at = <<>> THEN <<>> ELSE <<sent_at[Len(sent_at)]>>) \o <<clock'>>
    /\ PortFrame

InitPort == InitWith(init_config(0))

NextPort == ClockTick \/ MidiOutputSend

SpecPort == InitPort /\ [][NextPort]_vars

\* C35: a send sleeps exactly when now < last_sent + delay and otherwise
\* records now; last_sent never decreases; and any two consecutive sends on
\* the port are at least the delay apart.
SendsDelayApart ==
  [][sent_at' # sent_at =>
       /\ last_sent' >= last_sent
       /\ last_sent' = (IF clock < last_sent + Delay THEN last_sent + Delay ELSE clock)
       /\ clock' > clock <=> clock < last_sent + Delay
       /\ Len(sent_at') = 2 => sent_at'[2] - sent_at'[1] >= Delay]_vars

(***************************************************************************)
(* Fretboard.trigger and the NoteTracker's KeyError.                       *)
(***************************************************************************)
\* C36: in every play mode and channel mode, whatever the pad events and the
\* resets and config changes between them, the handling of a pad event
\* completes without raising: no note-off reaches the NoteTracker for a
\* note that is not in its set for the channel.
FretboardTriggerCompletes ==
  [][ev'.type = "Pad" => ~raised']_vars

\* C37: in Tap mode on a single channel, with no reset between the events,
\* once every pressed pad has been released no note is left sounding on the
\* processed port and every string's choke group is empty.
TapAllReleasedSilent ==
  (config.play_mode = "Tap" /\ config.chan_mode = "Single" /\ ~raised /\ held = <<>>) =>
    /\ sounding = {}
    /\ \A s \in DOMAIN fingered : fingered[s].note_order = <<>>

\* C38: after every handled pad event, every position shown OnPrimary has
\* its note in the tracker's set of its channel, and every position shown
\* OnDisabled has an equivalent position of the same channel that is
\* OnPrimary.
ShownAsSoundingSounds ==
  (ev.type = "Pad" /\ ~raised) =>
    \A sp \in DOMAIN vis :
      LET fc == FretboardConfig(pads_config)
          ch == map_channel(fc, sp)
      IN /\ vis[sp] = "OnPrimary" =>
              ch \in DOMAIN notemap /\ get_note(fc, sp) \in notemap[ch]
         /\ vis[sp] = "OnDisabled" =>
              \E eq \in Equivs(fc, get_note(fc, sp)) \ {sp} :
                map_channel(fc, eq) = ch /\ get_vis(vis, eq) = "OnPrimary"

(***************************************************************************)
(* The menu's knobs against its Config.                                    *)
(***************************************************************************)
\* C39: whatever the buttons pressed and the knobs turned, Menu.handle_event
\* never raises, and after each event every knob state's value is the value
\* of its Config field and lies within the knob's range.
MenuKnobsFollowConfig ==
  /\ ~raised
  /\ \A i \in DOMAIN menu.knob_states :
       LET control == device_knob_controls[i]
           ks == menu.knob_states[i]
       IN /\ ks.val = menu.config[control.lens]
          /\ set_value(control.val_range, ks.val) # None

====
